---------------------------- MODULE Spec2Model ----------------------------
(***************************************************************************)
(* Model of the geospatial merge/dedupe pipeline of Caravan_Scraper        *)
(* (src/src/merge_dedupe.py): main() reads the CSV rows, normalises them   *)
(* and hands them to _geo_dedup(), which buckets the projected points on a *)
(* 10 m grid, builds star-shaped blocks inside every bucket by fuzzy name  *)
(* match, and reduces every block to one merged row.                       *)
(*                                                                         *)
(* Text is modelled as a tuple of one-character strings so that            *)
(* _norm_name, str.split, " ".join and ";".join are computed character by  *)
(* character.  Coordinates are integers: metres in the EPSG:3857 plane.    *)
(***************************************************************************)
EXTENDS Integers, Sequences, FiniteSets, TLC

\* ------------------------------------------------------------------------
\* Bounds of the model
\* ------------------------------------------------------------------------

\* Largest number of CSV rows in one run.
MaxRecs == 3

\* Largest number of CSV rows in a run of the two-record scenarios.
MaxPair == 2

\* Largest number of CSV rows in a run of the name chain.
MaxChain == 4

\* Longest name passed to _norm_name on its own.
MaxLen == 4

\* Longest name, other than the names of the scenarios, passed to _fuzzy.
MaxWord == 3

\* Largest number of successive calls of _norm_name on one name.
MaxCalls == 2

\* Largest number of rows in the CSV file of a parcel enricher.
MaxParcelRows == 2

\* Largest number of find_place calls in one run of the Google enricher.
MaxFinds == 3

\* How far below api_limit the counter api_calls may stand when the model
\* takes up a run.
MaxBelow == 4

\* ------------------------------------------------------------------------
\* Cell values
\* ------------------------------------------------------------------------

\* A missing text cell (pandas reads an empty CSV cell as float NaN).
NaN == <<"NaN">>

\* What Series.get / row.get returns for a column the frame does not have.
None == <<"None">>

\* A float cell: a number of metres, or the float NaN.
Num(v) == [nan |-> FALSE, v |-> v]

NaNf == [nan |-> TRUE, v |-> 0]

\* isinstance(s, str)
IsStr(s) == s # NaN /\ s # None

\* ------------------------------------------------------------------------
\* Characters
\* ------------------------------------------------------------------------

\* The characters of the model in code point order.
Chars == <<"\t", " ", "!", "-", ".", "0", "1", "2", "3", "4", "5", "6", "7", "8",
           "9", ":", ";", "?", "@",
           "A", "B", "C", "D", "E", "F", "G", "H", "I", "J", "K", "L", "M",
           "N", "O", "P", "Q", "R", "S", "T", "U", "V", "W", "X", "Y", "Z",
           "a", "b", "c", "d", "e", "f", "g", "h", "i", "j", "k", "l", "m",
           "n", "o", "p", "q", "r", "s", "t", "u", "v", "w", "x", "y", "z",
           "U+0130", "U+0307">>

\* The characters beyond ASCII are written by their code point: U+0130 is the
\* capital I with a dot above (a letter), U+0307 the combining dot above (a
\* mark, neither alphanumeric nor whitespace).
CapitalIDot == "U+0130"

CombiningDot == "U+0307"

Range(s) == {s[i] : i \in 1..Len(s)}

\* ord(ch), up to an order-preserving renumbering
CodePoint == [ch \in Range(Chars) |-> CHOOSE i \in 1..Len(Chars) : Chars[i] = ch]

Code(ch) == CodePoint[ch]

Digits == <<"0", "1", "2", "3", "4", "5", "6", "7", "8", "9">>

UpperCase == <<"A", "B", "C", "D", "E", "F", "G", "H", "I", "J", "K", "L", "M",
               "N", "O", "P", "Q", "R", "S", "T", "U", "V", "W", "X", "Y", "Z">>

LowerCase == <<"a", "b", "c", "d", "e", "f", "g", "h", "i", "j", "k", "l", "m",
               "n", "o", "p", "q", "r", "s", "t", "u", "v", "w", "x", "y", "z">>

Whitespace == {" ", "\t"}

Alnum == Range(Digits) \cup Range(UpperCase) \cup Range(LowerCase) \cup {CapitalIDot}

\* str.lower of every character: a text, since the lowercase of U+0130 is the
\* two characters "i" and U+0307.
ToLower ==
    [ch \in Range(Chars) |->
        IF ch \in Range(UpperCase)
        THEN <<LowerCase[CHOOSE i \in 1..Len(UpperCase) : UpperCase[i] = ch]>>
        ELSE IF ch = CapitalIDot THEN <<"i", CombiningDot>>
        ELSE <<ch>>]

\* str.isspace
isspace(ch) == ch \in Whitespace

\* str.isalnum
isalnum(ch) == ch \in Alnum

\* str.lower on one character: the text it becomes
lower(ch) == ToLower[ch]

\* str.strip: drops leading and trailing whitespace
RECURSIVE lstrip(_)
lstrip(s) == IF s # <<>> /\ isspace(Head(s)) THEN lstrip(Tail(s)) ELSE s

RECURSIVE rstrip(_)
rstrip(s) ==
    IF s # <<>> /\ isspace(s[Len(s)]) THEN rstrip(SubSeq(s, 1, Len(s) - 1)) ELSE s

strip(s) == rstrip(lstrip(s))

\* Lexicographic order of two texts by code point (Python's str <).
RECURSIVE StrLess(_, _)
StrLess(a, b) ==
    IF b = <<>> THEN FALSE
    ELSE IF a = <<>> THEN TRUE
    ELSE IF Head(a) = Head(b) THEN StrLess(Tail(a), Tail(b))
    ELSE Code(Head(a)) < Code(Head(b))

\* sep.join(parts)
RECURSIVE join(_, _)
join(sep, parts) ==
    IF parts = <<>> THEN <<>>
    ELSE IF Len(parts) = 1 THEN parts[1]
    ELSE parts[1] \o sep \o join(sep, Tail(parts))

\* str.split(): the maximal runs of non-whitespace characters, in order.
RECURSIVE SplitFrom(_, _)
SplitFrom(s, cur) ==
    IF s = <<>> THEN (IF cur = <<>> THEN <<>> ELSE <<cur>>)
    ELSE IF isspace(Head(s))
         THEN (IF cur = <<>> THEN <<>> ELSE <<cur>>) \o SplitFrom(Tail(s), <<>>)
         ELSE SplitFrom(Tail(s), Append(cur, Head(s)))

split(s) == SplitFrom(s, <<>>)

\* sorted(set of texts): ascending by code point
RECURSIVE sorted(_)
sorted(S) ==
    IF S = {} THEN <<>>
    ELSE LET m == CHOOSE t \in S : \A u \in S \ {t} : StrLess(t, u)
         IN  <<m>> \o sorted(S \ {m})

\* str(int): decimal digits, "-" first for a negative number
RECURSIVE NatToStr(_)
NatToStr(n) ==
    IF n < 10 THEN <<Digits[n + 1]>>
    ELSE Append(NatToStr(n \div 10), Digits[(n % 10) + 1])

IntToStr(n) == IF n < 0 THEN <<"-">> \o NatToStr(-n) ELSE NatToStr(n)

\* ------------------------------------------------------------------------
\* Text values of the inputs
\* ------------------------------------------------------------------------

SunnyCaravanPark ==
    <<"S","u","n","n","y"," ","C","a","r","a","v","a","n"," ","P","a","r","k">>

SunnyCaravanPk ==
    <<"S","u","n","n","y"," ","C","a","r","a","v","a","n"," ","P","k">>

BlueLakeResort ==
    <<"B","l","u","e"," ","L","a","k","e"," ","R","e","s","o","r","t">>

CityCouncilDepot ==
    <<"C","i","t","y"," ","C","o","u","n","c","i","l"," ","D","e","p","o","t">>

TagOsm == <<"o","s","m">>

TagBrand == <<"b","r","a","n","d">>

ParkSunny == <<"P","a","r","k"," ","S","u","n","n","y">>

PhoneA == <<"0","2"," ","5","5","5","1">>

PhoneB == <<"0","7"," ","5","5","5","2">>

Blank == <<" ">>

SiteW == <<"w","w","w">>

MailE == <<"e","@","m">>

\* Names made of punctuation only.
Bangs == <<"!", "!", "!">>

QueryDash == <<"?", "-">>

\* The names a row can hold, before and after fillna, and None.
NameValues ==
    {SunnyCaravanPark, SunnyCaravanPk, BlueLakeResort, CityCouncilDepot,
     ParkSunny, Bangs, QueryDash, <<>>, NaN, None}

\* ------------------------------------------------------------------------
\* Name Normalizer and Fuzzy Matcher
\* ------------------------------------------------------------------------

RECURSIVE KeepAlnumSpaceLower(_)
KeepAlnumSpaceLower(s) ==
    IF s = <<>> THEN <<>>
    ELSE IF isalnum(Head(s)) \/ isspace(Head(s))
         THEN lower(Head(s)) \o KeepAlnumSpaceLower(Tail(s))
         ELSE KeepAlnumSpaceLower(Tail(s))

\* _norm_name: "" for a non-text value; else the alphanumeric and whitespace
\* characters, lowercased, stripped at both ends.
_norm_name(s) == IF ~IsStr(s) THEN <<>> ELSE strip(KeepAlnumSpaceLower(s))

Max(a, b) == IF a >= b THEN a ELSE b

\* Length of a longest common subsequence, one row of the table at a time:
\* acc holds the cells of the current row computed so far, prev the row above.
RECURSIVE LcsRow(_, _, _, _)
LcsRow(ch, b, prev, acc) ==
    IF Len(acc) = Len(b) THEN acc
    ELSE LET j == Len(acc) + 1
             left == IF j = 1 THEN 0 ELSE acc[j - 1]
             diag == IF j = 1 THEN 0 ELSE prev[j - 1]
             cell == IF ch = b[j] THEN diag + 1 ELSE Max(prev[j], left)
         IN  LcsRow(ch, b, prev, Append(acc, cell))

RECURSIVE LcsRows(_, _, _)
LcsRows(a, b, prev) ==
    IF a = <<>> \/ prev = <<>> THEN prev
    ELSE LcsRows(Tail(a), b, LcsRow(Head(a), b, prev, <<>>))

Lcs(a, b) ==
    IF a = <<>> \/ b = <<>> THEN 0
    ELSE LcsRows(a, b, [j \in 1..Len(b) |-> 0])[Len(b)]

\* rapidfuzz Indel distance: insertions and deletions only.
indel_distance(a, b) == Len(a) + Len(b) - 2 * Lcs(a, b)

\* rapidfuzz _norm_distance: 100 - 100 * dist / lensum, here rounded down to
\* an integer (the comparison with the integer threshold is unaffected).
norm_distance(dist, lensum) ==
    IF lensum = 0 THEN 100 ELSE (100 * (lensum - dist)) \div lensum

\* rapidfuzz fuzz.token_set_ratio
token_set_ratio(s1, s2) ==
    IF s1 = <<>> \/ s2 = <<>> THEN 0
    ELSE
    LET tokens_a == Range(split(s1))
        tokens_b == Range(split(s2))
        intersect == tokens_a \cap tokens_b
        diff_ab == tokens_a \ tokens_b
        diff_ba == tokens_b \ tokens_a
        diff_ab_joined == join(<<" ">>, sorted(diff_ab))
        diff_ba_joined == join(<<" ">>, sorted(diff_ba))
        ab_len == Len(diff_ab_joined)
        ba_len == Len(diff_ba_joined)
        sect_len == Len(join(<<" ">>, sorted(intersect)))
        gap == IF sect_len # 0 THEN 1 ELSE 0
        sect_ab_len == sect_len + gap + ab_len
        sect_ba_len == sect_len + gap + ba_len
        dist == indel_distance(diff_ab_joined, diff_ba_joined)
        result == norm_distance(dist, sect_ab_len + sect_ba_len)
        sect_ab_ratio == norm_distance(gap + ab_len, sect_len + sect_ab_len)
        sect_ba_ratio == norm_distance(gap + ba_len, sect_len + sect_ba_len)
    IN  IF tokens_a = {} \/ tokens_b = {} THEN 0
        ELSE IF intersect # {} /\ (diff_ab = {} \/ diff_ba = {}) THEN 100
        ELSE IF sect_len = 0 THEN result
        ELSE Max(result, Max(sect_ab_ratio, sect_ba_ratio))

\* A score that normalizes only its first name.
_fuzzy_first_only(a, b) ==
    token_set_ratio(_norm_name(a), IF IsStr(b) THEN b ELSE <<>>)

\* _fuzzy
_fuzzy(a, b) == token_set_ratio(_norm_name(a), _norm_name(b))

\* _norm_name and _fuzzy on the names of the model, computed once.
NormOf == [a \in NameValues |-> _norm_name(a)]

FuzzyOf == [a \in NameValues, b \in NameValues |-> _fuzzy(a, b)]

\* ------------------------------------------------------------------------
\* Frames
\* ------------------------------------------------------------------------

\* prefer_cols: the attributes a merged row may take from another member.
prefer_cols == <<"operator_brand", "operator_company", "operator_source_url",
                 "website", "phone", "email">>

\* The columns of a complete input table.
AllColumns ==
    {"name", "latitude", "longitude", "source_primary"} \cup Range(prefer_cols)

\* A numeric cell 0.0 (a column pandas read as numbers): present, but falsy.
Zero == <<"0.0">>

\* str(value) of a text cell
str(v) ==
    IF v = NaN THEN <<"n", "a", "n">>
    ELSE IF v = None THEN <<"N", "o", "n", "e">>
    ELSE IF v = Zero THEN <<"0", ".", "0">>
    ELSE v

\* bool(value): the empty text, None and 0.0 are falsy; float NaN is truthy.
truthy(v) == v # <<>> /\ v # None /\ v # Zero

\* pd.isna / pd.notna on a text cell
isna(v) == v = NaN \/ v = None

\* row.get(col): the cell, or None when the row has no such column
get(row, col) == IF col \in DOMAIN row.cells THEN row.cells[col] ELSE None

\* frame.columns of a frame with rows
columns(frame) == IF frame = <<>> THEN {} ELSE DOMAIN frame[1].cells

\* pd.concat(frames, ignore_index=True): the rows in input order, labelled 0..n-1
concat(rows) == [i \in 1..Len(rows) |-> [index |-> i - 1, cells |-> rows[i]]]

\* A frame whose missing names are left missing.
fillna_name_skipped(frame) == frame

\* df["name"].fillna("")
fillna_name(frame) ==
    [i \in 1..Len(frame) |->
        [frame[i] EXCEPT !.cells["name"] = IF @ = NaN THEN <<>> ELSE @]]

\* df.dropna(subset=["latitude","longitude"], how="any")
HasCoordinates(r) == ~r.cells["latitude"].nan /\ ~r.cells["longitude"].nan

dropna(frame) == SelectSeq(frame, HasCoordinates)

\* ------------------------------------------------------------------------
\* Geometry Projector and Grid Bucketer
\* ------------------------------------------------------------------------

\* radius_m: default of _geo_dedup
radius_m == 200

\* The grid of round(-1): multiples of ten metres.
GridSize == 10

\* gdf.to_crs(3857): the cells hold the coordinate already in projected metres
\* (the projection is strictly increasing in each coordinate).
to_crs(lon, lat) == [x |-> lon.v, y |-> lat.v]

\* A rounding to the nearest multiple of a thousand, a tie to the even one.
round_thousands(v) ==
    LET q == v \div 1000
        r == v % 1000
    IN  IF 2 * r < 1000 THEN q * 1000
        ELSE IF 2 * r > 1000 THEN (q + 1) * 1000
        ELSE IF q % 2 = 0 THEN q * 1000
        ELSE (q + 1) * 1000

\* Series.round(-1).astype(int): nearest multiple of ten, a tie to the even one
round_tens(v) ==
    LET q == v \div GridSize
        r == v % GridSize
    IN  IF 2 * r < GridSize THEN q * GridSize
        ELSE IF 2 * r > GridSize THEN (q + 1) * GridSize
        ELSE IF q % 2 = 0 THEN q * GridSize
        ELSE (q + 1) * GridSize

\* gdf["cluster"]: "<x rounded>:<y rounded>"
cluster_key(g) == IntToStr(round_tens(g.x)) \o <<":">> \o IntToStr(round_tens(g.y))

\* The GeoDataFrame of lines 17-19: every row with its point and bucket key.
with_geometry(frame) ==
    [i \in 1..Len(frame) |->
        LET g == to_crs(frame[i].cells["longitude"], frame[i].cells["latitude"])
        IN  [index |-> frame[i].index, cells |-> frame[i].cells,
             geometry |-> g, cluster |-> cluster_key(g)]]

\* A projection that adds the point and the key to the caller's frame itself.
geo_frame_in_place(frame) ==
    [df |-> with_geometry(frame), gdf |-> with_geometry(frame)]

\* Lines 17-19 as seen by the caller: gpd.GeoDataFrame(df.copy(), ...) builds
\* gdf on a copy, so the caller's frame is left as it is.
geo_frame(frame) == [df |-> frame, gdf |-> with_geometry(frame)]

\* gdf.groupby("cluster"): the distinct keys in ascending text order
group_keys(frame) == sorted({frame[i].cluster : i \in 1..Len(frame)})

\* A groupby that compares only the x part of the key.
InGroupByX(r, key) ==
    LET px == IntToStr(round_tens(r.geometry.x)) \o <<":">>
    IN  Len(key) >= Len(px) /\ SubSeq(key, 1, Len(px)) = px

\* one group: the rows with that key, in frame order
InGroup(r, key) == r.cluster = key

\* A group that holds every row of the frame, whatever its key.
group_rows_all(frame, key) == frame

group_rows(frame, key) == SelectSeq(frame, LAMBDA r : InGroup(r, key))

\* geometry.distance(other) <= radius, on the squares
within_radius(g1, g2, radius) ==
    (g1.x - g2.x) * (g1.x - g2.x) + (g1.y - g2.y) * (g1.y - g2.y) <= radius * radius

\* ------------------------------------------------------------------------
\* Cluster Builder
\* ------------------------------------------------------------------------

\* The fuzzy threshold of line 34.
FuzzyThreshold == 80

\* A name test that takes any positive score for a match.
name_match_any_score(row, row2) ==
    \/ FuzzyOf[get(row, "name"), get(row2, "name")] > 0
    \/ /\ truthy(get(row, "name"))
       /\ truthy(get(row2, "name"))
       /\ NormOf[get(row, "name")] = NormOf[get(row2, "name")]

\* Line 34: the name test between the seed row and another row.
name_match(row, row2) ==
    \/ FuzzyOf[get(row, "name"), get(row2, "name")] >= FuzzyThreshold
    \/ /\ truthy(get(row, "name"))
       /\ truthy(get(row2, "name"))
       /\ NormOf[get(row, "name")] = NormOf[get(row2, "name")]

\* A membership test that does not skip the rows already used.
is_member_ignoring_used(row, row2, usedset) ==
    /\ row2.index # row.index
    /\ within_radius(row.geometry, row2.geometry, radius_m)
    /\ name_match(row, row2)

\* Lines 30-35: row2 is appended to the block seeded by row.
is_member(row, row2, usedset) ==
    /\ row2.index # row.index
    /\ row2.index \notin usedset
    /\ within_radius(row.geometry, row2.geometry, radius_m)
    /\ name_match(row, row2)

Indexes(rows) == [k \in 1..Len(rows) |-> rows[k].index]

\* A block that also takes the rows matching a member that matches the seed.
build_block_chained(candrows, usedset, row) ==
    LET direct == SelectSeq(candrows, LAMBDA r2 : is_member(row, r2, usedset))
        reached(r2) ==
            \/ is_member(row, r2, usedset)
            \/ /\ r2.index # row.index
               /\ \E p \in 1..Len(direct) : is_member(direct[p], r2, usedset)
    IN  <<row.index>> \o Indexes(SelectSeq(candrows, reached))

\* Lines 28-35: the block of seed row: the seed, then the members in cand order.
build_block(candrows, usedset, row) ==
    <<row.index>> \o
    Indexes(SelectSeq(candrows, LAMBDA r2 : is_member(row, r2, usedset)))

\* cand.loc[k]
loc(candrows, k) ==
    candrows[CHOOSE p \in 1..Len(candrows) : candrows[p].index = k]

\* cand.loc[block]
loc_block(candrows, blk) == [k \in 1..Len(blk) |-> loc(candrows, blk[k])]

\* ------------------------------------------------------------------------
\* Record Merger
\* ------------------------------------------------------------------------

tag(row) == get(row, "source_primary")

\* Insertion of one row behind every row whose tag is not greater (stable).
RECURSIVE insert_by_tag(_, _)
insert_by_tag(rows, r) ==
    IF rows = <<>> THEN <<r>>
    ELSE IF StrLess(tag(r), tag(Head(rows))) THEN <<r>> \o rows
    ELSE <<Head(rows)>> \o insert_by_tag(Tail(rows), r)

RECURSIVE insertion_sort(_, _)
insertion_sort(done, rest) ==
    IF rest = <<>> THEN done
    ELSE insertion_sort(insert_by_tag(done, Head(rest)), Tail(rest))

\* sort_values(by=["source_primary"], na_position="last"): the rows with a tag
\* ascending by tag, equal tags in their given order (numpy sorts fewer than
\* 17 elements by insertion), then the rows without a tag in their given order.
sort_values(rows) ==
    insertion_sort(<<>>, SelectSeq(rows, LAMBDA r : ~isna(tag(r))))
    \o SelectSeq(rows, LAMBDA r : isna(tag(r)))

\* Line 37: the base row of a block.
base_row(candrows, blk) == sort_values(loc_block(candrows, blk))[1]

\* Line 44: the base has nothing in this column.
is_blank(v) == isna(v) \/ strip(str(IF truthy(v) THEN v ELSE <<>>)) = <<>>

\* Line 47: a value worth taking.
has_value(v) == ~isna(v) /\ strip(str(v)) # <<>>

\* A scan that does not stop at the first value and so keeps the last one.
RECURSIVE last_value(_, _)
last_value(rows, col) ==
    IF rows = <<>> THEN None
    ELSE IF last_value(Tail(rows), col) # None THEN last_value(Tail(rows), col)
    ELSE IF has_value(get(Head(rows), col)) THEN get(Head(rows), col)
    ELSE None

\* Lines 45-49: the first value worth taking, scanning the block in its order.
RECURSIVE first_value(_, _)
first_value(rows, col) ==
    IF rows = <<>> THEN None
    ELSE IF has_value(get(Head(rows), col)) THEN get(Head(rows), col)
    ELSE first_value(Tail(rows), col)

\* Line 44: the condition under which a column of the base is filled.
needs_backfill(merged, col) ==
    col \in DOMAIN merged.cells /\ is_blank(get(merged, col))

\* Lines 43-49 for one column.
backfill(merged, rows, col) ==
    IF needs_backfill(merged, col) /\ first_value(rows, col) # None
    THEN [merged EXCEPT !.cells[col] = first_value(rows, col)]
    ELSE merged

RECURSIVE backfill_all(_, _, _)
backfill_all(merged, rows, cols) ==
    IF cols = <<>> THEN merged
    ELSE backfill_all(backfill(merged, rows, Head(cols)), rows, Tail(cols))

\* A provenance that does not leave out the base.
in_provenance_all(r, merged) == TRUE

\* Line 50: the rows whose tag goes into source_secondary.
in_provenance(r, merged) == r.index # merged.index

\* A provenance that lists every tag once.
source_secondary_dedup(rows, merged) ==
    LET others == SelectSeq(rows, LAMBDA r : in_provenance(r, merged))
        tags == [k \in 1..Len(others) |-> str(tag(others[k]))]
        firsts == {k \in 1..Len(tags) : \A j \in 1..(k - 1) : tags[j] # tags[k]}
        RECURSIVE pick(_)
        pick(k) ==
            IF k > Len(tags) THEN <<>>
            ELSE (IF k \in firsts THEN <<tags[k]>> ELSE <<>>) \o pick(k + 1)
    IN  join(<<";">>, pick(1))

\* Line 50: ";".join(str(source_primary) of every member but the base)
source_secondary(rows, merged) ==
    LET others == SelectSeq(rows, LAMBDA r : in_provenance(r, merged))
    IN  join(<<";">>, [k \in 1..Len(others) |-> str(tag(others[k]))])

\* merged["source_secondary"] = ...: sets the column, adding it when new
set_cell(row, col, v) ==
    [row EXCEPT !.cells =
        [c \in DOMAIN row.cells \cup {col} |-> IF c = col THEN v ELSE row.cells[c]]]

\* A merge that writes the provenance over the source tag.
merge_block_into_primary(candrows, blk) ==
    LET rows == loc_block(candrows, blk)
        merged == backfill_all(base_row(candrows, blk), rows, prefer_cols)
    IN  set_cell(merged, "source_primary", source_secondary(rows, merged))

\* Lines 37-51: the merged row of a block.
merge_block(candrows, blk) ==
    LET rows == loc_block(candrows, blk)
        merged == backfill_all(base_row(candrows, blk), rows, prefer_cols)
    IN  set_cell(merged, "source_secondary", source_secondary(rows, merged))

\* A table that loses its last row.
drop_reset_short(rows) ==
    [k \in 1..(Len(rows) - 1) |-> [index |-> k - 1, cells |-> rows[k].cells]]

\* Line 52: drop(columns=["geometry","cluster"]).reset_index(drop=True)
drop_reset(rows) == [k \in 1..Len(rows) |-> [index |-> k - 1, cells |-> rows[k].cells]]

\* ------------------------------------------------------------------------
\* State
\* ------------------------------------------------------------------------

VARIABLES
    pc,        \* where main / _geo_dedup stands
    inputs,    \* the rows of the CSV inputs, in the order main concatenates them
    df,        \* main's frame
    gdf,       \* the projected frame with its cluster column
    groups,    \* the keys groupby has still to yield
    cand,      \* the rows of the current group
    used,      \* the labels already placed in a block of the current group
    ipos,      \* position of the outer iterrows loop in cand
    block,     \* the block just built, waiting to be merged
    out_rows,  \* the merged rows collected so far
    out,       \* the table main writes
    raised,    \* the exception that ended the run, "" when none
    buckets,   \* every group yielded so far: its key and its labels
    blocks,    \* every block built so far: its key, its labels and its base
    call,      \* a call of one of the module's pure functions: its argument
               \* and the values returned so far
    adapter    \* the state of the acquisition adapter being run (the Overpass
               \* call, a parcel enricher, the Places enricher)

vars == <<pc, inputs, df, gdf, groups, cand, used, ipos, block, out_rows, out,
          raised, buckets, blocks, call, adapter>>

\* No adapter is running.
NoAdapter == [name |-> ""]

\* No function is being called.
NoCall == [arg |-> <<>>, rets |-> <<>>]

\* ------------------------------------------------------------------------
\* Input rows
\* ------------------------------------------------------------------------

\* Points of the plane, as (longitude, latitude) cells.
Point(px, py) == [longitude |-> Num(px), latitude |-> Num(py)]

\* A CSV row.
Row(nm, pt, tg, attrs) ==
    [c \in AllColumns |->
        CASE c = "name" -> nm
          [] c = "latitude" -> pt.latitude
          [] c = "longitude" -> pt.longitude
          [] c = "source_primary" -> tg
          [] OTHER -> attrs[c]]

\* Every batch of at most max rows drawn from a set of rows.
Batches(rows, max) == UNION {[1..n -> rows] : n \in 0..max}

NoAttrs == [c \in Range(prefer_cols) |-> NaN]

InitWith(rows, max) ==
    /\ pc = "main"
    /\ inputs \in Batches(rows, max)
    /\ df = <<>>
    /\ gdf = <<>>
    /\ groups = <<>>
    /\ cand = <<>>
    /\ used = {}
    /\ ipos = 0
    /\ block = <<>>
    /\ out_rows = <<>>
    /\ out = <<>>
    /\ raised = ""
    /\ buckets = <<>>
    /\ blocks = <<>>
    /\ call = NoCall
    /\ adapter = NoAdapter

\* ------------------------------------------------------------------------
\* main and _geo_dedup, step by step
\* ------------------------------------------------------------------------

\* main, lines 60-65: read and concatenate; an empty frame is written out as
\* an empty table and the run ends.
ReadInputs ==
    /\ pc = "main"
    /\ df' = concat(inputs)
    /\ pc' = IF inputs = <<>> THEN "done" ELSE "normalise"
    /\ UNCHANGED <<adapter, call, inputs, gdf, groups, cand, used, ipos, block, out_rows, out,
                   raised, buckets, blocks>>

\* main, lines 67-68: names filled, rows without a coordinate dropped.
\* df["name"] raises KeyError when the table has no name column.
Normalise ==
    /\ pc = "normalise"
    /\ IF "name" \in columns(df)
       THEN /\ df' = dropna(fillna_name(df))
            /\ pc' = "geo_dedup"
            /\ UNCHANGED raised
       ELSE /\ raised' = "KeyError"
            /\ pc' = "done"
            /\ UNCHANGED df
    /\ UNCHANGED <<adapter, call, inputs, gdf, groups, cand, used, ipos, block, out_rows, out,
                   buckets, blocks>>

\* _geo_dedup, lines 17-21: project, bucket, start the groupby.
ProjectAndBucket ==
    /\ pc = "geo_dedup"
    /\ df' = geo_frame(df).df
    /\ gdf' = geo_frame(df).gdf
    /\ groups' = group_keys(gdf')
    /\ out_rows' = <<>>
    /\ pc' = "groups"
    /\ UNCHANGED <<adapter, call, inputs, cand, used, ipos, block, out, raised, buckets,
                   blocks>>

\* Lines 22-24: the next group, or the end of the groupby.
NextGroup ==
    /\ pc = "groups"
    /\ IF groups = <<>>
       THEN /\ pc' = "finish"
            /\ UNCHANGED <<groups, cand, used, ipos, buckets>>
       ELSE /\ cand' = group_rows(gdf, Head(groups))
            /\ used' = {}
            /\ ipos' = 1
            /\ groups' = Tail(groups)
            /\ buckets' = Append(buckets,
                   [key |-> Head(groups), members |-> Indexes(cand')])
            /\ pc' = "rows"
    /\ UNCHANGED <<adapter, call, inputs, df, gdf, block, out_rows, out, raised, blocks>>

\* Lines 25-36: the next row of cand; a used row is skipped, any other row
\* seeds a block, and the block's labels are marked used.
SeedRow ==
    /\ pc = "rows"
    /\ ipos <= Len(cand)
    /\ IF cand[ipos].index \in used
       THEN /\ ipos' = ipos + 1
            /\ UNCHANGED <<pc, block, used>>
       ELSE /\ block' = build_block(cand, used, cand[ipos])
            /\ used' = used \cup Range(block')
            /\ pc' = "merge"
            /\ UNCHANGED ipos
    /\ UNCHANGED <<adapter, call, inputs, df, gdf, groups, cand, out_rows, out, raised, buckets,
                   blocks>>

\* Lines 37-51: the block is reduced to its merged row.  sort_values(by=
\* ["source_primary"]) raises KeyError when the table has no such column.
MergeBlock ==
    /\ pc = "merge"
    /\ IF "source_primary" \in columns(cand)
       THEN /\ out_rows' = Append(out_rows, merge_block(cand, block))
            /\ blocks' = Append(blocks,
                   [key |-> cand[ipos].cluster,
                    members |-> block,
                    base |-> base_row(cand, block).index])
            /\ ipos' = ipos + 1
            /\ pc' = "rows"
            /\ UNCHANGED raised
       ELSE /\ raised' = "KeyError"
            /\ pc' = "done"
            /\ UNCHANGED <<out_rows, blocks, ipos>>
    /\ UNCHANGED <<adapter, call, inputs, df, gdf, groups, cand, used, block, out, buckets>>

\* Line 25: cand is exhausted.
EndGroup ==
    /\ pc = "rows"
    /\ ipos > Len(cand)
    /\ pc' = "groups"
    /\ UNCHANGED <<adapter, call, inputs, df, gdf, groups, cand, used, ipos, block, out_rows,
                   out, raised, buckets, blocks>>

\* Lines 52-53 and 70: pd.DataFrame(out_rows).drop(columns=["geometry",
\* "cluster"]) raises KeyError when out_rows is empty (the frame then has no
\* columns at all); otherwise the table is written.
Finish ==
    /\ pc = "finish"
    /\ IF out_rows = <<>>
       THEN raised' = "KeyError" /\ UNCHANGED out
       ELSE out' = drop_reset(out_rows) /\ UNCHANGED raised
    /\ pc' = "done"
    /\ UNCHANGED <<adapter, call, inputs, df, gdf, groups, cand, used, ipos, block, out_rows,
                   buckets, blocks>>

Next ==
    \/ ReadInputs
    \/ Normalise
    \/ ProjectAndBucket
    \/ NextGroup
    \/ SeedRow
    \/ MergeBlock
    \/ EndGroup
    \/ Finish

\* ------------------------------------------------------------------------
\* Specifications
\* ------------------------------------------------------------------------

\* Points: P0 and P1 share a bucket and lie 10 m apart; P2 lies 10 m from P0
\* in another bucket; P3 lies 50 m and P4 300 m from P0.
P0 == Point(-3, -4)

P1 == Point(3, 4)

P2 == Point(-9, -12)

P3 == Point(27, 36)

P4 == Point(177, 236)

\* P5 lies in the grid column of P0, one grid row below.
P5 == Point(-3, -12)

NoLatitude == [longitude |-> Num(-3), latitude |-> NaNf]

NoLongitude == [longitude |-> NaNf, latitude |-> Num(-4)]

\* Spec: the two-record scenarios: four names at five points and rows
\* without a coordinate.
ScenarioRows ==
    {Row(nm, pt, tg, NoAttrs) :
        nm \in {SunnyCaravanPark, SunnyCaravanPk, BlueLakeResort, CityCouncilDepot},
        pt \in {P0, P1, P2, P3, P4},
        tg \in {TagOsm, TagBrand}}
    \cup {Row(SunnyCaravanPark, NoLatitude, TagOsm, NoAttrs),
          Row(SunnyCaravanPk, NoLongitude, TagBrand, NoAttrs)}

Init == InitWith(ScenarioRows, MaxPair)

Spec == Init /\ [][Next]_vars

\* SpecBlocks: up to MaxRecs rows in two buckets of one grid column, with names that match in a
\* chain ("Sunny Caravan Pk" ~ "Sunny Caravan Park" ~ "Park Sunny", while
\* "Sunny Caravan Pk" and "Park Sunny" do not match).
BlockRows ==
    {Row(nm, pt, tg, NoAttrs) :
        nm \in {SunnyCaravanPk, SunnyCaravanPark, ParkSunny},
        pt \in {P0, P5},
        tg \in {TagOsm, TagBrand}}
    \cup {Row(SunnyCaravanPark, NoLatitude, TagOsm, NoAttrs)}

InitBlocks == InitWith(BlockRows, MaxRecs)

SpecBlocks == InitBlocks /\ [][Next]_vars

\* SpecMerge: up to MaxRecs rows of one facility (one point, one name), so
\* that they form one block, with every combination of tag and attributes.
Attrs(brand, site, phone, mail) ==
    [c \in Range(prefer_cols) |->
        CASE c = "operator_brand" -> brand
          [] c = "website" -> site
          [] c = "phone" -> phone
          [] c = "email" -> mail
          [] OTHER -> NaN]

AttrProfiles ==
    {NoAttrs,
     Attrs(NaN, NaN, PhoneA, NaN),
     Attrs(TagBrand, SiteW, PhoneB, MailE),
     Attrs(NaN, Blank, Blank, NaN),
     Attrs(NaN, NaN, Zero, NaN)}

MergeRows ==
    {Row(SunnyCaravanPark, P0, tg, at) :
        tg \in {TagOsm, TagBrand, NaN}, at \in AttrProfiles}
    \cup {Row(SunnyCaravanPark, NoLatitude, TagOsm, NoAttrs)}

InitMerge == InitWith(MergeRows, MaxRecs)

SpecMerge == InitMerge /\ [][Next]_vars

\* SpecFrame: up to MaxRecs rows in one bucket that differ in name, point,
\* tag and phone, so that a merged row can be told from every other member.
FrameRows ==
    {Row(nm, pt, tg, at) :
        nm \in {SunnyCaravanPark, SunnyCaravanPk},
        pt \in {P0, P1},
        tg \in {TagOsm, TagBrand},
        at \in {NoAttrs, Attrs(NaN, NaN, PhoneA, NaN)}}
    \cup {Row(SunnyCaravanPark, NoLatitude, TagOsm, NoAttrs)}

InitFrame == InitWith(FrameRows, MaxRecs)

SpecFrame == InitFrame /\ [][Next]_vars

\* SpecColumns: input tables that lack some of the columns: every row of
\* the run is a row of ColumnRows without the columns of one of MissingSets.
Without(row, cols) == [c \in (DOMAIN row) \ cols |-> row[c]]

ColumnRows ==
    {Row(nm, P0, tg, at) :
        nm \in {SunnyCaravanPark, SunnyCaravanPk},
        tg \in {TagOsm, TagBrand},
        at \in {NoAttrs, Attrs(NaN, NaN, PhoneA, NaN)}}

MissingSets ==
    {{}, {"name"}, {"source_primary"}, {"phone"}, {"operator_brand", "email"},
     Range(prefer_cols)}

InitColumns ==
    \E miss \in MissingSets :
        InitWith({Without(r, miss) : r \in ColumnRows}, MaxRecs)

SpecColumns == InitColumns /\ [][Next]_vars

\* SpecNames: up to MaxRecs rows in one bucket whose names are similar,
\* unrelated, made of punctuation only, or absent.
NameRows ==
    {Row(nm, pt, TagOsm, NoAttrs) :
        nm \in {SunnyCaravanPark, SunnyCaravanPk, BlueLakeResort, Bangs,
                QueryDash, NaN},
        pt \in {P0, P1}}

InitNames == InitWith(NameRows, MaxRecs)

SpecNames == InitNames /\ [][Next]_vars

\* SpecChain: up to MaxChain rows at one point whose names match in a chain:
\* "Sunny Caravan Pk" ~ "Sunny Caravan Park" ~ "Park Sunny", while "Sunny
\* Caravan Pk" and "Park Sunny" do not match.
ChainRows ==
    {Row(nm, P0, TagOsm, NoAttrs) :
        nm \in {SunnyCaravanPk, SunnyCaravanPark, ParkSunny}}

InitChain == InitWith(ChainRows, MaxChain)

SpecChain == InitChain /\ [][Next]_vars

\* SpecEngine: _geo_dedup called on a frame built in memory, not read from
\* CSV files: up to MaxRecs rows of one facility whose source tag is a text,
\* the empty text, or missing.  The run starts at line 17 with the frame as
\* df and ends when _geo_dedup returns.
EngineRows ==
    {Row(SunnyCaravanPark, P0, tg, NoAttrs) : tg \in {TagOsm, TagBrand, <<>>, NaN}}

InitEngine ==
    /\ pc = "geo_dedup"
    /\ inputs \in Batches(EngineRows, MaxRecs)
    /\ df = concat(inputs)
    /\ gdf = <<>>
    /\ groups = <<>>
    /\ cand = <<>>
    /\ used = {}
    /\ ipos = 0
    /\ block = <<>>
    /\ out_rows = <<>>
    /\ out = <<>>
    /\ raised = ""
    /\ buckets = <<>>
    /\ blocks = <<>>
    /\ call = NoCall
    /\ adapter = NoAdapter

NextEngine ==
    \/ ProjectAndBucket
    \/ NextGroup
    \/ SeedRow
    \/ MergeBlock
    \/ EndGroup
    \/ Finish

SpecEngine == InitEngine /\ [][NextEngine]_vars

\* SpecNorm: _norm_name called on a name, then on what it returned: every
\* text of at most MaxLen characters over an alphabet with an upper case
\* letter, a lower case letter, a space, a punctuation mark and the letter
\* U+0130, and the missing name.
NormChars == {"A", "b", " ", "!", CapitalIDot}

Texts(chars, n) == UNION {[1..k -> chars] : k \in 0..n}

InitNorm ==
    /\ pc = "norm"
    /\ adapter = NoAdapter
    /\ call \in [arg : Texts(NormChars, MaxLen) \cup {NaN}, rets : {<<>>}]
    /\ inputs = <<>>
    /\ df = <<>>
    /\ gdf = <<>>
    /\ groups = <<>>
    /\ cand = <<>>
    /\ used = {}
    /\ ipos = 0
    /\ block = <<>>
    /\ out_rows = <<>>
    /\ out = <<>>
    /\ raised = ""
    /\ buckets = <<>>
    /\ blocks = <<>>

\* _norm_name applied to the argument, or to what the last call returned.
NormName ==
    /\ pc = "norm"
    /\ Len(call.rets) < MaxCalls
    /\ call' = [call EXCEPT !.rets =
                   Append(@, _norm_name(IF @ = <<>> THEN call.arg ELSE @[Len(@)]))]
    /\ UNCHANGED <<adapter, pc, inputs, df, gdf, groups, cand, used, ipos, block, out_rows,
                   out, raised, buckets, blocks>>

NextNorm == NormName

SpecNorm == InitNorm /\ [][NextNorm]_vars

\* The variables of main and _geo_dedup when neither is running.
PipelineIdle ==
    /\ inputs = <<>>
    /\ df = <<>>
    /\ gdf = <<>>
    /\ groups = <<>>
    /\ cand = <<>>
    /\ used = {}
    /\ ipos = 0
    /\ block = <<>>
    /\ out_rows = <<>>
    /\ out = <<>>
    /\ raised = ""
    /\ buckets = <<>>
    /\ blocks = <<>>

\* SpecFuzzy: _fuzzy called on a pair of names, then on the pair swapped:
\* the names of the scenarios, the missing name, and every text of at most
\* MaxWord characters over an upper case letter, its lower case and a space.
FuzzyChars == {"A", "a", " "}

FuzzyArgs == Texts(FuzzyChars, MaxWord) \cup (NameValues \ {None})

InitFuzzy ==
    /\ pc = "fuzzy"
    /\ adapter = NoAdapter
    /\ call \in [arg : FuzzyArgs \X FuzzyArgs, rets : {<<>>}]
    /\ PipelineIdle

\* _fuzzy(a, b) on the first and every other odd call, _fuzzy(b, a) on the
\* even ones.
FuzzyNames ==
    /\ pc = "fuzzy"
    /\ Len(call.rets) < MaxCalls
    /\ call' = [call EXCEPT !.rets =
                   Append(@, IF Len(@) % 2 = 0
                             THEN _fuzzy(call.arg[1], call.arg[2])
                             ELSE _fuzzy(call.arg[2], call.arg[1]))]
    /\ UNCHANGED <<adapter, pc, inputs, df, gdf, groups, cand, used, ipos, block, out_rows,
                   out, raised, buckets, blocks>>

NextFuzzy == FuzzyNames

SpecFuzzy == InitFuzzy /\ [][NextFuzzy]_vars

\* ------------------------------------------------------------------------
\* overpass_fetch.py: _call_overpass under its tenacity retry
\* ------------------------------------------------------------------------

\* The variables of main, _geo_dedup and the pure functions.
pipevars == <<inputs, df, gdf, groups, cand, used, ipos, block, out_rows, out,
              raised, buckets, blocks, call>>

\* config.OVERPASS_ENDPOINTS
OVERPASS_ENDPOINTS == <<"overpass-api.de", "overpass.kumi.systems">>

\* stop_after_attempt(4)
MaxAttempts == 4

\* random.shuffle(endpoints): any order of the endpoints
Shuffles(seq) == {s \in [1..Len(seq) -> Range(seq)] : Range(s) = Range(seq)}

\* What a POST to an endpoint can end in: HTTP 200 with a JSON body, another
\* status, HTTP 200 with a body that is not JSON, an exception of requests.
Answers == {"200_json", "http_error", "invalid_json", "request_exception"}

\* The exception the except clause of line 48 catches for a failed POST.
error_of(endpoint, answer) ==
    [type |-> IF answer = "request_exception" THEN "RequestException"
              ELSE "OverpassError",
     endpoint |-> endpoint]

\* A stop condition that allows one attempt more.
stop_after_attempt_plus_one(attempt_number) == attempt_number >= MaxAttempts + 1

\* tenacity's stop_after_attempt(4): no retry once the 4th attempt has failed
stop_after_attempt(attempt_number) == attempt_number >= MaxAttempts

InitOverpass ==
    /\ pc = "call_overpass"
    /\ adapter = [name |-> "overpass", attempt_number |-> 0, endpoints |-> <<>>,
                  last_err |-> None, log |-> <<>>, result |-> None, raised |-> ""]
    /\ call = NoCall
    /\ PipelineIdle

\* Lines 33-35: an attempt starts with the endpoints in a random order.
BeginAttempt ==
    /\ pc = "call_overpass"
    /\ \E order \in Shuffles(OVERPASS_ENDPOINTS) :
          adapter' = [adapter EXCEPT !.attempt_number = @ + 1,
                                     !.endpoints = order,
                                     !.last_err = None]
    /\ pc' = "endpoints"
    /\ UNCHANGED pipevars

\* Lines 36-50: the POST to the next endpoint.  HTTP 200 with JSON returns
\* the body; anything else is caught, kept as last_err, and the loop goes on.
PostQuery ==
    /\ pc = "endpoints"
    /\ adapter.endpoints # <<>>
    /\ \E answer \in Answers :
          LET endpoint == Head(adapter.endpoints)
              entry == [attempt |-> adapter.attempt_number, endpoint |-> endpoint,
                        answer |-> answer]
          IN  IF answer = "200_json"
              THEN /\ adapter' = [adapter EXCEPT !.log = Append(@, entry),
                                               !.result = <<"json", endpoint>>]
                   /\ pc' = "done"
              ELSE /\ adapter' = [adapter EXCEPT !.log = Append(@, entry),
                                               !.last_err = error_of(endpoint, answer),
                                               !.endpoints = Tail(@)]
                   /\ pc' = "endpoints"
    /\ UNCHANGED pipevars

\* Line 52 and the decorator of lines 29-30: every endpoint failed, so the
\* attempt raises OverpassError; tenacity retries it unless the stop condition
\* holds, and then raises RetryError.
AttemptFailed ==
    /\ pc = "endpoints"
    /\ adapter.endpoints = <<>>
    /\ IF stop_after_attempt(adapter.attempt_number)
       THEN /\ adapter' = [adapter EXCEPT !.raised = "RetryError"]
            /\ pc' = "done"
       ELSE /\ pc' = "call_overpass"
            /\ UNCHANGED adapter
    /\ UNCHANGED pipevars

NextOverpass ==
    \/ BeginAttempt
    \/ PostQuery
    \/ AttemptFailed

SpecOverpass == InitOverpass /\ [][NextOverpass]_vars

\* SpecGrid: up to MaxPair rows at points on the borders and in the middle of
\* grid cells, and one far away, with names that match or not.
GridXs == {-5, 0, 5, 6, 14, 15, 305}

GridYs == {-5, 5, 6}

GridRows ==
    {Row(nm, Point(px, py), TagOsm, NoAttrs) :
        nm \in {SunnyCaravanPark, SunnyCaravanPk, BlueLakeResort},
        px \in GridXs, py \in GridYs}

InitGrid == InitWith(GridRows, MaxPair)

SpecGrid == InitGrid /\ [][Next]_vars

\* SpecRerun: _geo_dedup applied to the table it returned.  Up to MaxRecs rows
\* at one point, with the chain names and two source tags; when the first
\* run has ended with a table, Rerun passes that table to _geo_dedup again.
\* call.arg is the frame of the first call and call.rets its returned table.
RerunRows ==
    {Row(nm, P0, tg, NoAttrs) :
        nm \in {SunnyCaravanPk, SunnyCaravanPark, ParkSunny},
        tg \in {TagOsm, TagBrand}}

InitRerun == InitWith(RerunRows, MaxRecs)

\* _geo_dedup(out): the second call starts at line 17 with the first call's
\* return value as df.
Rerun ==
    /\ pc = "done"
    /\ raised = ""
    /\ out # <<>>
    /\ call = NoCall
    /\ call' = [arg |-> df, rets |-> <<out>>]
    /\ df' = out
    /\ pc' = "geo_dedup"
    /\ gdf' = <<>>
    /\ groups' = <<>>
    /\ cand' = <<>>
    /\ used' = {}
    /\ ipos' = 0
    /\ block' = <<>>
    /\ out_rows' = <<>>
    /\ out' = <<>>
    /\ buckets' = <<>>
    /\ blocks' = <<>>
    /\ UNCHANGED <<adapter, inputs, raised>>

NextRerun ==
    \/ ReadInputs
    \/ Normalise
    \/ ProjectAndBucket
    \/ NextGroup
    \/ SeedRow
    \/ MergeBlock
    \/ EndGroup
    \/ Finish
    \/ Rerun

SpecRerun == InitRerun /\ [][NextRerun]_vars

\* ------------------------------------------------------------------------
\* The parcel enrichers (src/src/area_nsw.py, src/src/area_qld.py)
\* ------------------------------------------------------------------------

\* A cell of the enrichers' table with its Python type: a text (s, a tuple
\* of characters), an int or a float (n, whole square metres for a float),
\* the float NaN of an empty CSV cell, or None.
Str(s) == [t |-> "str", s |-> s, n |-> 0]

Integer(n) == [t |-> "int", s |-> <<>>, n |-> n]

Float(n) == [t |-> "float", s |-> <<>>, n |-> n]

NaNCell == [t |-> "nan", s |-> <<>>, n |-> 0]

NoneCell == [t |-> "none", s |-> <<>>, n |-> 0]

\* pd.notna(v)
notna(c) == c.t \notin {"nan", "none"}

\* row.get(col): None for a column the table does not have
row_get(row, col) == IF col \in DOMAIN row THEN row[col] ELSE NoneCell

\* df[col] = v for every row, and df.at[idx, col] = v: the column is added
\* when the table does not have it.
with_cell(row, col, v) ==
    [c \in DOMAIN row \cup {col} |-> IF c = col THEN v ELSE row[c]]

with_column(frame, col, v) == [i \in 1..Len(frame) |-> with_cell(frame[i], col, v)]

\* to_csv of one cell: NaN and None are written as the empty text, a float
\* with its decimal point.
csv_text(c) ==
    CASE c.t = "str" -> c.s
      [] c.t = "int" -> IntToStr(c.n)
      [] c.t = "float" -> IntToStr(c.n) \o <<".", "0">>
      [] OTHER -> <<>>

\* df.to_csv(args.out, index=False)
to_csv(frame) ==
    [i \in 1..Len(frame) |-> [c \in DOMAIN frame[i] |-> csv_text(frame[i][c])]]

\* The texts of the two modules.
NSW == <<"N", "S", "W">>

QLD == <<"Q", "L", "D">>

nsw_dcdb == <<"n", "s", "w", "_", "d", "c", "d", "b">>

qld_dcdb == <<"q", "l", "d", "_", "d", "c", "d", "b">>

nsw_area_error == <<"n", "s", "w", "_", "a", "r", "e", "a", "_", "e", "r", "r", "o", "r", ":">>

qld_area_error == <<"q", "l", "d", "_", "a", "r", "e", "a", "_", "e", "r", "r", "o", "r", ":">>

\* The state a module enriches, its columns, its source tag and the prefix
\* of its error note.
state_of(name) == IF name = "area_nsw" THEN NSW ELSE QLD

checked_col(name) == IF name = "area_nsw" THEN "nsw_checked" ELSE "qld_checked"

count_col(name) == IF name = "area_nsw" THEN "nsw_parcels_count" ELSE "qld_parcels_count"

dcdb_of(name) == IF name = "area_nsw" THEN nsw_dcdb ELSE qld_dcdb

error_prefix(name) == IF name = "area_nsw" THEN nsw_area_error ELSE qld_area_error

\* stop_after_attempt(3) of the two _query_parcels_for_point
ParcelAttempts == 3

parcel_stop_after_attempt(attempt_number) == attempt_number >= ParcelAttempts

\* area_nsw lines 52-56, area_qld lines 50-52: the columns set for every row
\* after read_csv, and the checked column added when the file has none.
reset_columns(name, frame) ==
    LET counted == with_column(frame, count_col(name), Integer(0))
        cleared == IF name = "area_nsw"
                   THEN with_column(with_column(counted, "nsw_parcel_ids", Str(<<>>)),
                                    "nsw_area_sum_sqm", NoneCell)
                   ELSE counted
    IN  IF \E i \in 1..Len(cleared) : checked_col(name) \in DOMAIN cleared[i]
        THEN cleared
        ELSE with_column(cleared, checked_col(name), Integer(0))

\* area_nsw line 73, area_qld line 68
has_ids(row) ==
    LET lpis_val == row_get(row, "land_parcel_ids")
    IN  notna(lpis_val) /\ strip(csv_text(lpis_val)) # <<>>

\* An already test that does not look at the checked flag.
already_without_checked(name, row) ==
    LET las == row_get(row, "land_area_source")
        cnt == row_get(row, count_col(name))
    IN  \/ (las.t = "str" /\ las.s = dcdb_of(name))
        \/ (notna(cnt) /\ cnt.n > 0)
        \/ has_ids(row)

\* area_nsw lines 70-74, area_qld lines 65-70: the row is already enriched
already(name, row) ==
    LET las == row_get(row, "land_area_source")
        cnt == row_get(row, count_col(name))
    IN  \/ row_get(row, checked_col(name)) = Integer(1)
        \/ (las.t = "str" /\ las.s = dcdb_of(name))
        \/ (notna(cnt) /\ cnt.n > 0)
        \/ has_ids(row)

\* The features a cadastre layer answers with: a lot with its plan and
\* area, and a feature whose attributes are all missing.
NswLot == [planlabel |-> <<"D", "P", "1">>, lotnumber |-> <<"1">>, shape_Area |-> 950]

NswBare == [planlabel |-> <<>>, lotnumber |-> <<>>, shape_Area |-> 0]

QldLot == [lotplan |-> <<"1", "R", "P", "1">>, lot_area |-> 950]

QldBare == [lotplan |-> <<>>, lot_area |-> 0]

FeatureLists(name) ==
    IF name = "area_nsw"
    THEN {<<>>, <<NswLot>>, <<NswBare>>, <<NswLot, NswBare>>}
    ELSE {<<>>, <<QldLot>>, <<QldBare>>, <<QldLot, QldBare>>}

\* area_nsw lines 86-88: the id of one feature
nsw_pid(attrs) ==
    IF attrs.lotnumber # <<>>
    THEN IF attrs.planlabel # <<>>
         THEN attrs.lotnumber \o <<"/">> \o attrs.planlabel
         ELSE attrs.lotnumber
    ELSE attrs.planlabel

\* ";".join([p for p in ids if p])
join_ids(ids) == join(<<";">>, SelectSeq(ids, LAMBDA p : p # <<>>))

RECURSIVE sum_area(_, _)
sum_area(feats, field) ==
    IF feats = <<>> THEN 0 ELSE Head(feats)[field] + sum_area(Tail(feats), field)

\* area_nsw lines 80-94
nsw_features(row, feats) ==
    LET counted == with_cell(row, "nsw_parcels_count", Integer(Len(feats)))
        ids == [k \in 1..Len(feats) |-> nsw_pid(feats[k])]
    IN  IF feats = <<>> THEN counted
        ELSE with_cell(with_cell(with_cell(counted,
                 "land_parcel_ids", Str(join_ids(ids))),
                 "land_area_sqm", Float(sum_area(feats, "shape_Area"))),
                 "land_area_source", Str(nsw_dcdb))

\* area_qld lines 75-90: the ids and the area are added to those the row
\* has; a zero area leaves the source as it is.
qld_features(row, feats) ==
    LET counted == with_cell(row, "qld_parcels_count", Integer(Len(feats)))
        ids == [k \in 1..Len(feats) |-> feats[k].lotplan]
        area == sum_area(feats, "lot_area")
        prev_area == IF notna(row["land_area_sqm"]) THEN row["land_area_sqm"].n ELSE 0
        prev_ids == IF notna(row["land_parcel_ids"]) THEN row["land_parcel_ids"].s ELSE <<>>
    IN  IF feats = <<>> THEN counted
        ELSE with_cell(with_cell(with_cell(counted,
                 "land_parcel_ids", Str(join_ids(<<prev_ids>> \o ids))),
                 "land_area_sqm",
                     IF area # 0 THEN Float(prev_area + area)
                     ELSE IF prev_area # 0 THEN Float(prev_area) ELSE NoneCell),
                 "land_area_source",
                     IF area # 0 THEN Str(qld_dcdb) ELSE row["land_area_source"])

apply_features(name, row, feats) ==
    IF name = "area_nsw" THEN nsw_features(row, feats) ELSE qld_features(row, feats)

\* area_nsw line 98, area_qld line 94
mark_checked(name, row) == with_cell(row, checked_col(name), Integer(1))

\* area_nsw lines 95-96, area_qld lines 91-92
note_error(name, row, e) == with_cell(row, "notes", Str(error_prefix(name) \o <<e>>))

\* The rows of an input file: of the module's state or of the other one,
\* checked or not, with or without land data, and with or without a parcel
\* count written by an earlier run.
LandProfiles(name) ==
    {[land_area_source |-> NaNCell, land_parcel_ids |-> NaNCell, land_area_sqm |-> NaNCell],
     [land_area_source |-> Str(dcdb_of(name)), land_parcel_ids |-> NaNCell,
      land_area_sqm |-> Float(500)],
     [land_area_source |-> NaNCell, land_parcel_ids |-> Str(<<" ">>),
      land_area_sqm |-> NaNCell],
     [land_area_source |-> NaNCell, land_parcel_ids |-> Str(<<"7", "/", "D", "P", "9">>),
      land_area_sqm |-> Float(500)]}

ParcelColumns(name) ==
    {"state", "latitude", "longitude", "notes", "land_area_source", "land_parcel_ids",
     "land_area_sqm", "nsw_parcels_count", "nsw_parcel_ids", "nsw_area_sum_sqm",
     count_col(name)}

ParcelRow(name, st, land, cnt) ==
    [c \in ParcelColumns(name) |->
        CASE c = "state" -> Str(st)
          [] c = "latitude" -> Float(-34)
          [] c = "longitude" -> Float(151)
          [] c = "notes" -> NaNCell
          [] c \in DOMAIN land -> land[c]
          [] c = count_col(name) -> Integer(cnt)
          [] c = "nsw_parcels_count" -> Integer(0)
          [] OTHER -> NaNCell]

ParcelRows(name) ==
    {ParcelRow(name, st, land, cnt) :
        st \in {NSW, QLD}, land \in LandProfiles(name), cnt \in {0, 3}}

\* The files: without the checked column, or with it and a flag per row.
ParcelFiles(name) ==
    UNION {[1..n -> ParcelRows(name)] : n \in 0..MaxParcelRows}
    \cup UNION {{[i \in 1..n |-> with_cell(f[i], checked_col(name), Integer(flags[i]))] :
                    f \in [1..n -> ParcelRows(name)], flags \in [1..n -> {0, 1}]} :
                n \in 1..MaxParcelRows}

\* --limit: not given, or a number of rows
NoLimit == [given |-> FALSE, n |-> 0]

Limit(n) == [given |-> TRUE, n |-> n]

ParcelArgs ==
    [force : BOOLEAN, offset : {0, 1}, limit : {NoLimit, Limit(1)}]

\* main of either module before read_csv.  queried and failed record the
\* positions of the rows a query was attempted for and of those whose query
\* ended in an exception; written is the table of the output file.
InitParcels ==
    /\ pc = "area_main"
    /\ \E name \in {"area_nsw", "area_qld"} :
          adapter \in
              [name : {name}, args : ParcelArgs, inp : ParcelFiles(name), df : {<<>>},
               idx : {0}, processed : {0}, skipped : {0}, attempt_number : {0},
               queried : {{}}, failed : {{}}, written : {<<>>}]
    /\ call = NoCall
    /\ PipelineIdle

\* area_nsw lines 51-59, area_qld lines 49-55
ReadParcelCsv ==
    /\ pc = "area_main"
    /\ adapter' = [adapter EXCEPT !.df = reset_columns(adapter.name, adapter.inp),
                                  !.idx = 1]
    /\ pc' = "area_rows"
    /\ UNCHANGED pipevars

\* The row of this iteration and the tests of the loop, in the order of the
\* code: state, offset, limit, already enriched.
this_row == adapter.df[adapter.idx]

is_state == row_get(this_row, "state") = Str(state_of(adapter.name))

in_offset == adapter.args.offset # 0 /\ adapter.skipped < adapter.args.offset

at_limit == adapter.args.limit.given /\ adapter.processed >= adapter.args.limit.n

is_already == ~adapter.args.force /\ already(adapter.name, this_row)

\* The next iteration.
next_row(a) == [a EXCEPT !.idx = @ + 1]

\* area_nsw lines 61-65 and 69-76: the three continue statements
SkipRow ==
    /\ pc = "area_rows"
    /\ adapter.idx <= Len(adapter.df)
    /\ \/ ~is_state
       \/ in_offset
       \/ (~at_limit /\ is_already)
    /\ adapter' = next_row([adapter EXCEPT
                      !.skipped = IF is_state /\ in_offset THEN @ + 1 ELSE @])
    /\ UNCHANGED <<pc, pipevars>>

\* area_nsw lines 66-67: break
LimitReached ==
    /\ pc = "area_rows"
    /\ adapter.idx <= Len(adapter.df)
    /\ is_state /\ ~in_offset /\ at_limit
    /\ pc' = "area_write"
    /\ UNCHANGED <<adapter, pipevars>>

\* area_nsw lines 77-79: the row is to be queried
BeginQuery ==
    /\ pc = "area_rows"
    /\ adapter.idx <= Len(adapter.df)
    /\ is_state /\ ~in_offset /\ ~at_limit /\ ~is_already
    /\ adapter' = [adapter EXCEPT !.attempt_number = 0,
                                  !.queried = @ \cup {adapter.idx}]
    /\ pc' = "area_query"
    /\ UNCHANGED pipevars

\* Lines 98-100: the row is marked and the loop goes on.
row_done(a, row) ==
    next_row([a EXCEPT !.df[a.idx] = mark_checked(a.name, row),
                       !.processed = @ + 1])

\* _query_parcels_for_point returns a list of features: lines 80-94, 98-100
QuerySucceeded ==
    /\ pc = "area_query"
    /\ \E feats \in FeatureLists(adapter.name) :
          adapter' = row_done([adapter EXCEPT !.attempt_number = @ + 1],
                              apply_features(adapter.name, this_row, feats))
    /\ pc' = "area_rows"
    /\ UNCHANGED pipevars

\* A requests.RequestException before the last attempt: tenacity waits and
\* calls again.
QueryRetried ==
    /\ pc = "area_query"
    /\ ~parcel_stop_after_attempt(adapter.attempt_number + 1)
    /\ adapter' = [adapter EXCEPT !.attempt_number = @ + 1]
    /\ UNCHANGED <<pc, pipevars>>

\* The exceptions that reach line 95: RetryError after the last attempt, or
\* at any attempt an exception tenacity does not retry (js is not a dict).
QueryFailed ==
    /\ pc = "area_query"
    /\ \E e \in {"RetryError", "AttributeError"} :
          /\ e = "RetryError" => parcel_stop_after_attempt(adapter.attempt_number + 1)
          /\ adapter' = row_done([adapter EXCEPT !.attempt_number = @ + 1,
                                                 !.failed = @ \cup {adapter.idx}],
                                 note_error(adapter.name, this_row, e))
    /\ pc' = "area_rows"
    /\ UNCHANGED pipevars

\* Line 102, after the last row or after break
WriteParcelCsv ==
    /\ \/ pc = "area_rows" /\ adapter.idx > Len(adapter.df)
       \/ pc = "area_write"
    /\ adapter' = [adapter EXCEPT !.written = to_csv(adapter.df)]
    /\ pc' = "area_done"
    /\ UNCHANGED pipevars

NextParcels ==
    \/ ReadParcelCsv
    \/ SkipRow
    \/ LimitReached
    \/ BeginQuery
    \/ QuerySucceeded
    \/ QueryRetried
    \/ QueryFailed
    \/ WriteParcelCsv

SpecParcels == InitParcels /\ [][NextParcels]_vars

\* ------------------------------------------------------------------------
\* The Google Places enricher (src/src/enrich_google.py), find_place
\* ------------------------------------------------------------------------

\* self.api_limit
api_limit == 2000

\* The names and coordinates of the parks looked up.
GoogleNames == {<<"A">>, <<"B", "i", "g", "4">>}

GoogleLats == {1, 2}

GoogleLngs == {3}

\* f"{name}_{lat}_{lng}"
cache_key(name, lat, lng) ==
    name \o <<"_">> \o IntToStr(lat) \o <<"_">> \o IntToStr(lng)

\* name.lower()
lower_text(s) == join(<<>>, [k \in 1..Len(s) |-> lower(s[k])])

\* re.search of a literal text
contains(s, sub) ==
    \E i \in 1..(Len(s) - Len(sub) + 1) : SubSeq(s, i, i + Len(sub) - 1) = sub

\* identify_chain, for the pattern BIG\s?4 of CHAIN_PATTERNS, ignoring case
identify_chain(name) ==
    \/ contains(lower_text(name), <<"b", "i", "g", "4">>)
    \/ contains(lower_text(name), <<"b", "i", "g", " ", "4">>)

\* len(search_queries): four queries, and one more in front for a chain
search_queries(name) == IF identify_chain(name) THEN 5 ELSE 4

\* What find_place returns: None, or the details of a place with the score
\* of its match.
NoPlace == [place_id |-> "", confidence_score |-> 0]

place_details(score) == [place_id |-> "ChIJ", confidence_score |-> score]

\* self.cache: a dict, as the set of its items
cache_has(cache, key) == \E e \in cache : e.key = key

cache_get(cache, key) == (CHOOSE e \in cache : e.key = key).value

cache_put(cache, key, value) ==
    {e \in cache : e.key # key} \cup {[key |-> key, value |-> value]}

\* A negative result that is not kept.
cache_negative_skipped(cache, key) == cache

\* Line 259: self.cache[cache_key] = None
cache_negative(cache, key) == cache_put(cache, key, NoPlace)

\* What gmaps.find_place does for one query: it raises, it answers without
\* a candidate, or with a candidate whose total_score is low, fair or good.
QueryAnswers ==
    {[kind |-> "exception", total_score |-> 0],
     [kind |-> "empty", total_score |-> 0]}
    \cup {[kind |-> "candidate", total_score |-> s] : s \in {40, 60, 80}}

\* The counter at the start: 0 after __init__, or what earlier calls of the
\* run have left, up to the limit.
StartCalls == {0} \cup {api_limit - d : d \in 0..MaxBelow}

\* find_place is not running.  finds counts the calls; key, queries,
\* best_score belong to the running call; requests counts the calls of the
\* Google client made by the last call, api_before is api_calls at its
\* entry, known the result of the completed lookup of its key if there was
\* one, ret its return value and outcome the way it ended.  completed holds
\* the lookups that ended without an exception.
InitGoogle ==
    /\ pc = "find_place"
    /\ adapter \in
          [name : {"enrich_google"}, api_calls : StartCalls, cache : {{}},
           finds : {0}, key : {<<>>}, queries : {0}, best_score : {0},
           requests : {0}, api_before : {0}, known : {<<>>}, ret : {NoPlace},
           outcome : {""}, completed : {{}}]
    /\ call = NoCall
    /\ PipelineIdle

\* The entry of a call with a key.
enter(a, key) ==
    [a EXCEPT !.finds = @ + 1,
              !.key = key,
              !.requests = 0,
              !.api_before = a.api_calls,
              !.known = IF cache_has(a.completed, key)
                        THEN <<cache_get(a.completed, key)>> ELSE <<>>]

\* A call returns.
return(a, value, outcome) == [a EXCEPT !.ret = value, !.outcome = outcome]

\* Lines 182-185: the key is in the cache
FindPlaceCached ==
    /\ pc = "find_place"
    /\ adapter.finds < MaxFinds
    /\ \E name \in GoogleNames, lat \in GoogleLats, lng \in GoogleLngs :
          LET key == cache_key(name, lat, lng)
          IN  /\ cache_has(adapter.cache, key)
              /\ adapter' = return(enter(adapter, key),
                                   cache_get(adapter.cache, key), "cached")
    /\ UNCHANGED <<pc, pipevars>>

\* Lines 187-190: the budget is used up
FindPlaceAtLimit ==
    /\ pc = "find_place"
    /\ adapter.finds < MaxFinds
    /\ adapter.api_calls >= api_limit
    /\ \E name \in GoogleNames, lat \in GoogleLats, lng \in GoogleLngs :
          LET key == cache_key(name, lat, lng)
          IN  /\ ~cache_has(adapter.cache, key)
              /\ adapter' = return(enter(adapter, key), NoPlace, "limit")
    /\ UNCHANGED <<pc, pipevars>>

\* Lines 192-207: the lookup starts
BeginSearch ==
    /\ pc = "find_place"
    /\ adapter.finds < MaxFinds
    /\ adapter.api_calls < api_limit
    /\ \E name \in GoogleNames, lat \in GoogleLats, lng \in GoogleLngs :
          LET key == cache_key(name, lat, lng)
          IN  /\ ~cache_has(adapter.cache, key)
              /\ adapter' = [enter(adapter, key) EXCEPT
                                !.queries = search_queries(name),
                                !.best_score = 0,
                                !.outcome = ""]
    /\ pc' = "search"
    /\ UNCHANGED pipevars

\* Lines 209-243: one query of the loop.  An exception of the client ends
\* the call at line 261; otherwise the counter goes up, the best score is
\* kept, and the loop ends after the last query or on a good match.
SearchQuery ==
    /\ pc = "search"
    /\ \E ans \in QueryAnswers :
          IF ans.kind = "exception"
          THEN /\ adapter' = return([adapter EXCEPT !.requests = @ + 1],
                                    NoPlace, "exception")
               /\ pc' = "find_place"
          ELSE LET best == IF ans.kind = "candidate" /\ ans.total_score > adapter.best_score
                           THEN ans.total_score ELSE adapter.best_score
                   left == IF best > 75 THEN 0 ELSE adapter.queries - 1
               IN  /\ adapter' = [adapter EXCEPT !.requests = @ + 1,
                                                 !.api_calls = @ + 1,
                                                 !.best_score = best,
                                                 !.queries = left]
                   /\ pc' = IF left > 0 THEN "search"
                            ELSE IF best > 50 THEN "details" ELSE "negative"
    /\ UNCHANGED pipevars

\* Lines 245-256: get_place_details, which returns None when the status is
\* not OK or the client raises; the details are cached and saved.  An
\* exception of save_cache ends the call at line 261 with the cache set.
PlaceDetails ==
    /\ pc = "details"
    /\ \E found \in BOOLEAN, saved \in BOOLEAN :
          LET counted == [adapter EXCEPT !.requests = @ + 1, !.api_calls = @ + 1]
              details == place_details(adapter.best_score)
          IN  IF ~found
              THEN /\ adapter' = counted
                   /\ pc' = "negative"
              ELSE /\ adapter' =
                         IF saved
                         THEN return([counted EXCEPT
                                         !.cache = cache_put(@, adapter.key, details),
                                         !.completed = cache_put(@, adapter.key, details)],
                                     details, "found")
                         ELSE return([counted EXCEPT
                                         !.cache = cache_put(@, adapter.key, details)],
                                     NoPlace, "exception")
                   /\ pc' = "find_place"
    /\ UNCHANGED pipevars

\* Lines 258-265: the negative result is cached and saved
CacheNegative ==
    /\ pc = "negative"
    /\ \E saved \in BOOLEAN :
          adapter' =
              IF saved
              THEN return([adapter EXCEPT
                              !.cache = cache_negative(@, adapter.key),
                              !.completed = cache_put(@, adapter.key, NoPlace)],
                          NoPlace, "not_found")
              ELSE return([adapter EXCEPT !.cache = cache_negative(@, adapter.key)],
                          NoPlace, "exception")
    /\ pc' = "find_place"
    /\ UNCHANGED pipevars

NextGoogle ==
    \/ FindPlaceCached
    \/ FindPlaceAtLimit
    \/ BeginSearch
    \/ SearchQuery
    \/ PlaceDetails
    \/ CacheNegative

SpecGoogle == InitGoogle /\ [][NextGoogle]_vars

\* ------------------------------------------------------------------------
\* Vocabulary of the properties
\* ------------------------------------------------------------------------

\* The label main gives the p-th CSV row.
Label(p) == p - 1

\* The p-th CSV row has both coordinates.
Valid(p) == ~inputs[p].latitude.nan /\ ~inputs[p].longitude.nan

ValidLabels == {Label(p) : p \in {q \in 1..Len(inputs) : Valid(q)}}

\* Square of the planar distance between the points of two CSV rows.
Dist2(p, q) ==
    LET g1 == to_crs(inputs[p].longitude, inputs[p].latitude)
        g2 == to_crs(inputs[q].longitude, inputs[q].latitude)
    IN  (g1.x - g2.x) * (g1.x - g2.x) + (g1.y - g2.y) * (g1.y - g2.y)

\* The batch is two rows with coordinates.
TwoValid == Len(inputs) = 2 /\ Valid(1) /\ Valid(2)

\* Every block built so far, the one waiting to be merged included.
BlocksSoFar ==
    {blocks[k].members : k \in 1..Len(blocks)}
    \cup (IF pc = "merge" THEN {block} ELSE {})

\* Two labels are members of one block.
Together(a, b) == \E blk \in BlocksSoFar : {a, b} \subseteq Range(blk)

\* The run has ended without an exception.
Completed == pc = "done" /\ raised = ""

\* ------------------------------------------------------------------------
\* C1  Scenario A
\* ------------------------------------------------------------------------

ScenarioA ==
    /\ TwoValid
    /\ Dist2(1, 2) = 50 * 50
    /\ inputs[1].name = SunnyCaravanPark
    /\ inputs[2].name = SunnyCaravanPk

\* C1: two valid records 50 m apart named "Sunny Caravan Park" and "Sunny
\* Caravan Pk" come out as exactly one merged record whose source_secondary
\* is the second record's source tag.
C1_ScenarioA_OneMergedRecord ==
    (pc = "done" /\ ScenarioA) =>
        /\ raised = ""
        /\ Len(out) = 1
        /\ out[1].cells["source_secondary"] = str(inputs[2].source_primary)

\* ------------------------------------------------------------------------
\* C2  Scenario B
\* ------------------------------------------------------------------------

ScenarioB ==
    /\ TwoValid
    /\ Dist2(1, 2) = 300 * 300
    /\ inputs[1].name = inputs[2].name

\* C2: two valid records 300 m apart with identical names are never members
\* of one block, and the run ends with two merged records, one per input
\* record, each with an empty source_secondary.
C2_ScenarioB_TwoRecords ==
    ScenarioB =>
        /\ ~Together(Label(1), Label(2))
        /\ pc = "done" =>
              /\ raised = ""
              /\ Len(out) = 2
              /\ {blocks[k].base : k \in 1..Len(blocks)} = {Label(1), Label(2)}
              /\ \A k \in 1..2 : out[k].cells["source_secondary"] = <<>>

C2_Witness == pc = "done" /\ ScenarioB /\ Len(out) = 2

\* ------------------------------------------------------------------------
\* C3  Scenario C
\* ------------------------------------------------------------------------

ScenarioC ==
    /\ TwoValid
    /\ Dist2(1, 2) = 10 * 10
    /\ FuzzyOf[inputs[1].name, inputs[2].name] < 80
    /\ NormOf[inputs[1].name] # NormOf[inputs[2].name]

\* C3: two valid records 10 m apart with unrelated names are never members
\* of one block, in one bucket or in two, and the run ends with both as
\* separate merged records.
C3_ScenarioC_StaySeparate ==
    ScenarioC =>
        /\ ~Together(Label(1), Label(2))
        /\ pc = "done" =>
              /\ raised = ""
              /\ Len(out) = 2
              /\ {blocks[k].base : k \in 1..Len(blocks)} = {Label(1), Label(2)}
              /\ {out[k].cells["name"] : k \in 1..2}
                     = {inputs[1].name, inputs[2].name}

\* The two records of Scenario C share their bucket and the run has ended.
C3_Witness ==
    /\ pc = "done"
    /\ ScenarioC
    /\ inputs[1].name = BlueLakeResort
    /\ inputs[2].name = CityCouncilDepot
    /\ Len(buckets) = 1
    /\ Len(out) = 2

\* ------------------------------------------------------------------------
\* C4  Records without a coordinate
\* ------------------------------------------------------------------------

\* C4: a record lacking latitude or longitude is in no bucket and no block,
\* hence in no merged record, and every run ends without an exception, also
\* a run in which every record lacks a coordinate.
C4_NoCoordinate_ExcludedWithoutError ==
    /\ \A k \in 1..Len(buckets) : Range(buckets[k].members) \subseteq ValidLabels
    /\ \A blk \in BlocksSoFar : Range(blk) \subseteq ValidLabels
    /\ pc = "done" => raised = ""

\* ------------------------------------------------------------------------
\* Blocks and their merged rows
\* ------------------------------------------------------------------------

\* The row of the projected frame with a given label.
RowOf(lbl) == loc(gdf, lbl)

\* The members of the k-th block other than its base, in block order.
Others(k) == SelectSeq(blocks[k].members, LAMBDA m : m # blocks[k].base)

\* The cell of column c in the base row of the k-th block, before the merge.
BaseCell(k, c) == RowOf(blocks[k].base).cells[c]

\* A cell holds a value: it is not missing and not blank text.
NonEmpty(v) == v # NaN /\ strip(str(v)) # <<>>

\* A cell is absent or empty: missing, or text that is empty or blank.
AbsentOrEmpty(v) == v = NaN \/ (v # Zero /\ strip(v) = <<>>)

\* ------------------------------------------------------------------------
\* C5  Merge never loses base data
\* ------------------------------------------------------------------------

\* C5: for every block and every backfillable column that holds a value on
\* the block's base row, the merged row holds the base row's value.
C5_BaseDataKept ==
    \A k \in 1..Len(blocks) : \A c \in Range(prefer_cols) :
        NonEmpty(BaseCell(k, c)) => out_rows[k].cells[c] = BaseCell(k, c)

\* The same, for base values other than a numeric zero.
C5_BaseDataKeptUnlessZero ==
    \A k \in 1..Len(blocks) : \A c \in Range(prefer_cols) :
        (NonEmpty(BaseCell(k, c)) /\ BaseCell(k, c) # Zero)
            => out_rows[k].cells[c] = BaseCell(k, c)

\* ------------------------------------------------------------------------
\* C6  Provenance completeness
\* ------------------------------------------------------------------------

\* C6: the source_secondary of every merged row is the ";"-joined list of
\* the source tags of the block's members other than the base, one entry per
\* such member, in block order, repeated tags kept; it is empty for a block
\* of one.
C6_ProvenanceComplete ==
    \A k \in 1..Len(blocks) :
        /\ Len(Others(k)) = Len(blocks[k].members) - 1
        /\ out_rows[k].cells["source_secondary"] =
               join(<<";">>,
                    [j \in 1..Len(Others(k)) |->
                        str(RowOf(Others(k)[j]).cells["source_primary"])])
        /\ Len(blocks[k].members) = 1 =>
               out_rows[k].cells["source_secondary"] = <<>>

\* A block of three whose base is its second member and whose other two
\* members carry the same tag.
C6_Witness ==
    /\ pc = "done"
    /\ \E k \in 1..Len(blocks) :
          /\ Len(blocks[k].members) = 3
          /\ blocks[k].base = blocks[k].members[2]
          /\ out[k].cells["source_secondary"] = TagOsm \o <<";">> \o TagOsm

\* ------------------------------------------------------------------------
\* C7  Backfill rule
\* ------------------------------------------------------------------------

\* The values of column c held by the other members of block k, block order.
OtherValues(k, c) ==
    SelectSeq([j \in 1..Len(Others(k)) |-> RowOf(Others(k)[j]).cells[c]], NonEmpty)

\* C7: for every backfillable column that is absent or empty on the base
\* row, the merged row holds the first non-empty value of the other block
\* members in block order, and the base's own cell when no member has one.
C7_BackfillFirstNonEmpty ==
    \A k \in 1..Len(blocks) : \A c \in Range(prefer_cols) :
        AbsentOrEmpty(BaseCell(k, c)) =>
            out_rows[k].cells[c] =
                IF OtherValues(k, c) # <<>> THEN OtherValues(k, c)[1]
                ELSE BaseCell(k, c)

\* Scenario E with a choice: the base has no phone, two other members have
\* different phones, and the merged row has the phone of the first of them.
C7_Witness ==
    /\ pc = "done"
    /\ \E k \in 1..Len(blocks) :
          /\ BaseCell(k, "phone") = NaN
          /\ Len(OtherValues(k, "phone")) = 2
          /\ OtherValues(k, "phone")[1] # OtherValues(k, "phone")[2]
          /\ out[k].cells["phone"] = OtherValues(k, "phone")[1]

\* ------------------------------------------------------------------------
\* C8  Block partition
\* ------------------------------------------------------------------------

\* The clustering of the k-th bucket is complete.
BucketDone(k) == k < Len(buckets) \/ pc \in {"groups", "finish", "done"}

\* The blocks built in the bucket with a given key.
BlocksOf(key) == {j \in 1..Len(blocks) : blocks[j].key = key}

NoRepeats(s) == Cardinality(Range(s)) = Len(s)

\* C8: no record is a member of two blocks or twice a member of one, and
\* once the clustering of a bucket is complete the blocks built in it
\* cover exactly the bucket.
C8_BlockPartition ==
    /\ \A j1, j2 \in 1..Len(blocks) :
          j1 # j2 => Range(blocks[j1].members) \cap Range(blocks[j2].members) = {}
    /\ \A j \in 1..Len(blocks) : NoRepeats(blocks[j].members)
    /\ pc = "merge" =>
          /\ NoRepeats(block)
          /\ \A j \in 1..Len(blocks) : Range(blocks[j].members) \cap Range(block) = {}
    /\ \A k \in 1..Len(buckets) :
          BucketDone(k) =>
              UNION {Range(blocks[j].members) : j \in BlocksOf(buckets[k].key)}
                  = Range(buckets[k].members)

\* A bucket of three records ending in a block of two and a block of one.
C8_Witness ==
    /\ pc = "done"
    /\ \E k \in 1..Len(buckets) :
          /\ Len(buckets[k].members) = 3
          /\ Cardinality(BlocksOf(buckets[k].key)) = 2

\* ------------------------------------------------------------------------
\* C9  Bucket partition
\* ------------------------------------------------------------------------

\* C9: no record is in two buckets or twice in one, and once groupby has
\* yielded every group the buckets cover exactly the records passed to
\* _geo_dedup, which are the input records with both coordinates.
C9_BucketPartition ==
    /\ \A k1, k2 \in 1..Len(buckets) :
          k1 # k2 =>
              /\ buckets[k1].key # buckets[k2].key
              /\ Range(buckets[k1].members) \cap Range(buckets[k2].members) = {}
    /\ \A k \in 1..Len(buckets) : NoRepeats(buckets[k].members)
    /\ pc \in {"finish", "done"} /\ ValidLabels # {} =>
          /\ UNION {Range(buckets[k].members) : k \in 1..Len(buckets)}
                 = Range(Indexes(df))
          /\ Range(Indexes(df)) = ValidLabels

\* Three records passed to _geo_dedup end in two buckets.
C9_Witness ==
    /\ pc = "done"
    /\ Cardinality(ValidLabels) = 3
    /\ Len(buckets) = 2

\* ------------------------------------------------------------------------
\* C11  Empty record collection
\* ------------------------------------------------------------------------

\* C11: a run on an empty record collection (no input rows, or no row left
\* to cluster once the rows without a coordinate are dropped) ends without an
\* exception and with an empty output table.
C11_EmptyCollection_EmptyOutput ==
    (pc = "done" /\ ValidLabels = {}) => (Completed /\ out = <<>>)

\* The same for a run without any input row, which main ends at line 65.
C11_NoInputRows_EmptyOutput ==
    (pc = "done" /\ inputs = <<>>) => (Completed /\ out = <<>>)

\* ------------------------------------------------------------------------
\* C12  One output row per block
\* ------------------------------------------------------------------------

\* C12: there is one merged row per block, it is the row of the block's base
\* member, and no merged row is the row of a non-base member; the table
\* written at the end has as many rows as there are blocks, in block order,
\* and no more rows than there are input records with both coordinates.
C12_OneRowPerBlock ==
    /\ Len(out_rows) = Len(blocks)
    /\ \A k \in 1..Len(blocks) :
          /\ blocks[k].base \in Range(blocks[k].members)
          /\ out_rows[k].index = blocks[k].base
          /\ \A m \in Range(Others(k)) :
                \A j \in 1..Len(out_rows) : out_rows[j].index # m
    /\ (pc = "done" /\ raised = "") =>
          /\ Len(out) = Len(blocks)
          /\ Len(out) <= Cardinality(ValidLabels)
          /\ \A k \in 1..Len(out) :
                /\ out[k].cells["name"] = BaseCell(k, "name")
                /\ out[k].cells["source_primary"] = BaseCell(k, "source_primary")

\* Three valid records end as two rows: a block of two whose base is its
\* second member, and a block of one.
C12_Witness ==
    /\ pc = "done"
    /\ Cardinality(ValidLabels) = 3
    /\ Len(out) = 2
    /\ \E k \in 1..Len(blocks) :
          /\ Len(blocks[k].members) = 2
          /\ blocks[k].base = blocks[k].members[2]

\* ------------------------------------------------------------------------
\* C13  Attributes outside the backfillable list
\* ------------------------------------------------------------------------

\* The columns of a row that are not backfillable.
FixedColumns == AllColumns \ Range(prefer_cols)

\* C13: in the merged row of every block the name, the latitude, the
\* longitude and the source tag (and the point and bucket key derived from
\* them) are those of the block's base row, and the merged row has the base
\* row's columns plus source_secondary; the same holds for the written table.
C13_OnlyBackfillableChanged ==
    /\ \A k \in 1..Len(blocks) :
          /\ \A c \in FixedColumns : out_rows[k].cells[c] = BaseCell(k, c)
          /\ DOMAIN out_rows[k].cells =
                 DOMAIN RowOf(blocks[k].base).cells \cup {"source_secondary"}
          /\ out_rows[k].geometry = RowOf(blocks[k].base).geometry
          /\ out_rows[k].cluster = RowOf(blocks[k].base).cluster
    /\ (pc = "done" /\ raised = "") =>
          \A k \in 1..Len(out) : \A c \in FixedColumns :
              out[k].cells[c] = BaseCell(k, c)

\* A block whose base takes its phone from a member with another name,
\* another point and another tag, and keeps its own name, point and tag.
C13_Witness ==
    /\ pc = "done"
    /\ \E k \in 1..Len(blocks) : \E m \in Range(Others(k)) :
          /\ BaseCell(k, "phone") = NaN
          /\ out[k].cells["phone"] = RowOf(m).cells["phone"]
          /\ out[k].cells["phone"] = PhoneA
          /\ \A c \in FixedColumns : RowOf(m).cells[c] # BaseCell(k, c)
          /\ \A c \in FixedColumns : out[k].cells[c] = BaseCell(k, c)

\* ------------------------------------------------------------------------
\* C14  Missing columns
\* ------------------------------------------------------------------------

\* The columns the input table lacks.
MissingColumns == IF inputs = <<>> THEN {} ELSE AllColumns \ DOMAIN inputs[1]

\* C14: a run on a table with rows that lacks the source tag column, the name
\* column or backfillable columns ends without an exception, with one row per
\* block, none of which has a value in a column the table lacks.
C14_MissingColumn_NoError ==
    (pc = "done" /\ MissingColumns # {}) =>
        /\ raised = ""
        /\ Len(out) = Len(blocks)
        /\ Len(out) > 0
        /\ \A k \in 1..Len(out) : \A c \in MissingColumns :
              get(out[k], c) = None

\* The same for a table that lacks only backfillable columns.
C14_MissingBackfillable_NoError ==
    (pc = "done" /\ MissingColumns # {} /\ MissingColumns \subseteq Range(prefer_cols)) =>
        /\ raised = ""
        /\ Len(out) = Len(blocks)
        /\ Len(out) > 0
        /\ \A k \in 1..Len(out) : \A c \in MissingColumns :
              get(out[k], c) = None

\* ------------------------------------------------------------------------
\* C15  Cluster membership rule
\* ------------------------------------------------------------------------

\* The labels placed in the blocks already built in the current bucket.
UsedBefore ==
    UNION {Range(blocks[j].members) : j \in BlocksOf(cand[ipos].cluster)}

\* The rule as stated: within the radius, and a score of at least 80 or
\* normalized names that are identical and not empty.
StatedRule(row, row2) ==
    /\ within_radius(row.geometry, row2.geometry, radius_m)
    /\ \/ FuzzyOf[get(row, "name"), get(row2, "name")] >= FuzzyThreshold
       \/ /\ NormOf[get(row, "name")] = NormOf[get(row2, "name")]
          /\ NormOf[get(row, "name")] # <<>>

\* Both names normalize to the empty text.
BothNormaliseToEmpty(row, row2) ==
    NormOf[get(row, "name")] = <<>> /\ NormOf[get(row2, "name")] = <<>>

\* C15: when the block seeded by row i has been built, a row j of the bucket
\* other than i and not used before is a member of the block if and only if
\* the stated rule holds between i and j.
C15_MembershipRule ==
    pc = "merge" =>
        \A p \in 1..Len(cand) :
            (cand[p].index # cand[ipos].index /\ cand[p].index \notin UsedBefore) =>
                (cand[p].index \in Range(block) <=> StatedRule(cand[ipos], cand[p]))

\* The same for every pair of rows but those whose names both normalize to
\* the empty text.
C15_MembershipRuleUnlessBothEmpty ==
    pc = "merge" =>
        \A p \in 1..Len(cand) :
            (/\ cand[p].index # cand[ipos].index
             /\ cand[p].index \notin UsedBefore
             /\ ~BothNormaliseToEmpty(cand[ipos], cand[p])) =>
                (cand[p].index \in Range(block) <=> StatedRule(cand[ipos], cand[p]))

\* ------------------------------------------------------------------------
\* C16  Star-shaped grouping
\* ------------------------------------------------------------------------

\* The test of lines 33-34 between the rows of two labels.
Matches(a, b) ==
    /\ within_radius(RowOf(a).geometry, RowOf(b).geometry, radius_m)
    /\ name_match(RowOf(a), RowOf(b))

\* The seed of the k-th block.
Seed(k) == blocks[k].members[1]

\* The clustering of the bucket with this key is complete.
KeyDone(key) == \E b \in 1..Len(buckets) : buckets[b].key = key /\ BucketDone(b)

\* The labels of the bucket of the k-th block that no earlier block holds.
Unused(k) ==
    {gdf[p].index : p \in {q \in 1..Len(gdf) : gdf[q].cluster = blocks[k].key}}
    \ UNION {Range(blocks[j].members) : j \in {i \in BlocksOf(blocks[k].key) : i < k}}

\* Label r matches a non-seed member of the k-th block, but not its seed.
MatchesMemberOnly(k, r) ==
    /\ r \in Unused(k)
    /\ r # Seed(k)
    /\ ~Matches(Seed(k), r)
    /\ \E m \in Range(blocks[k].members) \ {Seed(k)} : Matches(m, r)

\* Every member of a block matches the block's seed.
MembersMatchSeed ==
    \A k \in 1..Len(blocks) :
        \A m \in Range(blocks[k].members) \ {Seed(k)} : Matches(Seed(k), m)

\* C16, as stated: every member of a block matches its seed, and a record
\* that matches a non-seed member of a block but not its seed is no member
\* of that block and is the seed of a later block.
C16_StarShaped_SeedOfLaterBlock ==
    /\ MembersMatchSeed
    /\ \A k \in 1..Len(blocks) : \A r \in ValidLabels :
          MatchesMemberOnly(k, r) =>
              /\ r \notin Range(blocks[k].members)
              /\ KeyDone(blocks[k].key) =>
                    \E j \in BlocksOf(blocks[k].key) : j > k /\ Seed(j) = r

\* C16, amended: every member of a block matches its seed, and a record that
\* matches a non-seed member of a block but not its seed is no member of
\* that block and is in a later block of the bucket, as its seed or as a
\* member that matches its seed.
C16_StarShaped_InLaterBlock ==
    /\ MembersMatchSeed
    /\ \A k \in 1..Len(blocks) : \A r \in ValidLabels :
          MatchesMemberOnly(k, r) =>
              /\ r \notin Range(blocks[k].members)
              /\ KeyDone(blocks[k].key) =>
                    \E j \in BlocksOf(blocks[k].key) :
                        /\ j > k
                        /\ r \in Range(blocks[j].members)
                        /\ (Seed(j) = r \/ Matches(Seed(j), r))

\* "Sunny Caravan Pk", "Sunny Caravan Park", "Park Sunny": the third matches
\* the second, not the first, and seeds the second block.
C16_Witness ==
    /\ pc = "done"
    /\ Len(inputs) = 3
    /\ Len(blocks) = 2
    /\ blocks[1].members = <<0, 1>>
    /\ MatchesMemberOnly(1, 2)
    /\ blocks[2].members = <<2>>

\* ------------------------------------------------------------------------
\* C17  Base selection
\* ------------------------------------------------------------------------

\* The source tag of the row with a label.
TagOf(lbl) == RowOf(lbl).cells["source_primary"]

\* The tag is a text that is not empty.
NonEmptyTag(lbl) == TagOf(lbl) # NaN /\ TagOf(lbl) # <<>>

\* The tag is not missing.
PresentTag(lbl) == TagOf(lbl) # NaN

\* C17, as stated: the base of a block is a member; when some member has a
\* non-empty tag, the base has a non-empty tag and no member with a non-empty
\* tag has a smaller one (members whose tag is absent or the empty text come
\* after all of these).
C17_BaseFirstByTag_EmptyLast ==
    \A k \in 1..Len(blocks) :
        LET mem == Range(blocks[k].members)
            b == blocks[k].base
        IN  /\ b \in mem
            /\ (\E m \in mem : NonEmptyTag(m)) =>
                  /\ NonEmptyTag(b)
                  /\ \A m \in mem : NonEmptyTag(m) => ~StrLess(TagOf(m), TagOf(b))

\* The order the code applies: only a missing tag comes last, and the empty
\* text, the smallest text, comes first.
C17_BaseFirstByTag_MissingLast ==
    \A k \in 1..Len(blocks) :
        LET mem == Range(blocks[k].members)
            b == blocks[k].base
        IN  /\ b \in mem
            /\ (\E m \in mem : PresentTag(m)) =>
                  /\ PresentTag(b)
                  /\ \A m \in mem : PresentTag(m) => ~StrLess(TagOf(m), TagOf(b))

\* ------------------------------------------------------------------------
\* C18  Different bucket keys
\* ------------------------------------------------------------------------

\* The labels of the projected frame.
GdfLabels == {gdf[p].index : p \in 1..Len(gdf)}

\* The blocks, built so far, that hold a label.
BlocksWith(lbl) == {k \in 1..Len(blocks) : lbl \in Range(blocks[k].members)}

\* C18: the members of every block have the block's bucket key; two records
\* with different bucket keys are never members of one block; and two
\* records within the radius with matching names but different bucket keys
\* end in two different blocks, hence in two merged records.
C18_DifferentKeysNeverTogether ==
    /\ \A k \in 1..Len(blocks) : \A m \in Range(blocks[k].members) :
          RowOf(m).cluster = blocks[k].key
    /\ pc = "merge" =>
          \A m \in Range(block) : RowOf(m).cluster = cand[ipos].cluster
    /\ \A a, b \in GdfLabels :
          RowOf(a).cluster # RowOf(b).cluster =>
              /\ ~Together(a, b)
              /\ (pc = "done" /\ Matches(a, b)) =>
                    /\ raised = ""
                    /\ Cardinality(BlocksWith(a)) = 1
                    /\ Cardinality(BlocksWith(b)) = 1
                    /\ BlocksWith(a) # BlocksWith(b)
                    /\ Len(out) = Len(blocks)

\* "Sunny Caravan Park" and "Sunny Caravan Pk" 10 m apart on the two sides of
\* a cell boundary end as two merged rows.
C18_Witness ==
    /\ pc = "done"
    /\ TwoValid
    /\ Dist2(1, 2) = 10 * 10
    /\ RowOf(Label(1)).cluster # RowOf(Label(2)).cluster
    /\ Matches(Label(1), Label(2))
    /\ inputs[1].name # inputs[2].name
    /\ Len(out) = 2

\* ------------------------------------------------------------------------
\* C19  Empty names
\* ------------------------------------------------------------------------

\* The record with this label has no name in the CSV input.
AbsentName(lbl) == inputs[lbl + 1].name = NaN

\* C19: in a run of main a record without a name reaches _geo_dedup with the
\* empty text as its name; two such records are never members of one block,
\* and such a record is never appended to the block of another record.
C19_EmptyNamesNeverCluster ==
    /\ \A lbl \in GdfLabels : AbsentName(lbl) <=> RowOf(lbl).cells["name"] = <<>>
    /\ \A a, b \in GdfLabels :
          (a # b /\ AbsentName(a) /\ AbsentName(b)) => ~Together(a, b)
    /\ \A blk \in BlocksSoFar :
          \A p \in 2..Len(blk) : ~AbsentName(blk[p])

\* Two records without a name and a named one at one point end as three
\* merged rows.
C19_Witness ==
    /\ pc = "done"
    /\ Len(inputs) = 3
    /\ Len(buckets) = 1
    /\ \A p \in 1..3 : inputs[p].longitude = P0.longitude /\ inputs[p].latitude = P0.latitude
    /\ AbsentName(Label(1))
    /\ AbsentName(Label(3))
    /\ inputs[2].name = SunnyCaravanPark
    /\ Len(out) = 3

\* ------------------------------------------------------------------------
\* C20  Idempotence of normalization
\* ------------------------------------------------------------------------

\* C20: _norm_name applied to what _norm_name returned returns the same text.
C20_NormIdempotent ==
    Len(call.rets) >= 2 => call.rets[2] = call.rets[1]

\* The same for the names without the letter U+0130.
C20_NormIdempotentWithoutIDot ==
    (Len(call.rets) >= 2 /\ IsStr(call.arg) /\ CapitalIDot \notin Range(call.arg)) =>
        call.rets[2] = call.rets[1]

\* ------------------------------------------------------------------------
\* C21  Symmetry of the fuzzy match
\* ------------------------------------------------------------------------

\* A row of a bucket holding only what the membership test reads.
Probe(lbl, nm, pt) ==
    [index |-> lbl, cells |-> [name |-> nm],
     geometry |-> to_crs(pt.longitude, pt.latitude)]

\* C21: _fuzzy(b, a) equals _fuzzy(a, b), and for two rows of a bucket the
\* membership test of lines 30-35 gives the same answer whichever is the seed.
C21_FuzzySymmetric ==
    Len(call.rets) >= 2 =>
        /\ call.rets[2] = call.rets[1]
        /\ (call.arg[1] \in NameValues /\ call.arg[2] \in NameValues) =>
              (is_member(Probe(0, call.arg[1], P0), Probe(1, call.arg[2], P1), {})
                  <=> is_member(Probe(1, call.arg[2], P1), Probe(0, call.arg[1], P0), {}))

\* Both orders of "Sunny Caravan Park" and "Sunny Caravan Pk" score 94.
C21_Witness ==
    /\ Len(call.rets) >= 2
    /\ call.arg = <<SunnyCaravanPark, SunnyCaravanPk>>
    /\ call.rets[1] = 94
    /\ call.rets[2] = 94

\* ------------------------------------------------------------------------
\* C22  Whitespace in normalized names
\* ------------------------------------------------------------------------

\* Every whitespace character of the text is a space with no whitespace
\* character after it.
WhitespaceCollapsed(t) ==
    \A i \in 1..Len(t) :
        isspace(t[i]) => (t[i] = " " /\ (i < Len(t) => ~isspace(t[i + 1])))

\* C22: in the text _norm_name returns for a name, every run of whitespace
\* characters is a single space.
C22_NormCollapsesWhitespace ==
    (Len(call.rets) >= 1 /\ IsStr(call.arg)) => WhitespaceCollapsed(call.rets[1])

\* What _norm_name does: the result has no upper case letter and no
\* punctuation mark, and no whitespace at either end.
C22_NormLowercasesStripsTrims ==
    (Len(call.rets) >= 1 /\ IsStr(call.arg)) =>
        /\ \A i \in 1..Len(call.rets[1]) :
              call.rets[1][i] \notin Range(UpperCase) \cup {"!", CapitalIDot}
        /\ strip(call.rets[1]) = call.rets[1]

\* ------------------------------------------------------------------------
\* C23  The records passed to _geo_dedup
\* ------------------------------------------------------------------------

\* The frame main passes to _geo_dedup.
PassedFrame == dropna(fillna_name(concat(inputs)))

\* C23: from the call of _geo_dedup to the end of the run the frame passed
\* to it has the same rows, columns and values: no row has a point, a bucket
\* key or a source_secondary; the projected frame and the group being
\* clustered hold the values of the frame passed, the merge changing neither.
C23_RecordsUnchanged ==
    pc \notin {"main", "normalise"} =>
        /\ df = PassedFrame
        /\ \A p \in 1..Len(df) :
              /\ DOMAIN df[p] = {"index", "cells"}
              /\ "source_secondary" \notin DOMAIN df[p].cells
        /\ \A p \in 1..Len(gdf) : gdf[p].cells = loc(df, gdf[p].index).cells
        /\ \A p \in 1..Len(cand) : cand[p] = loc(gdf, cand[p].index)

\* After a merge that backfilled a phone and wrote a provenance, the base
\* record still has no phone in the frame passed.
C23_Witness ==
    /\ pc = "done"
    /\ \E k \in 1..Len(blocks) :
          /\ out[k].cells["phone"] = PhoneA
          /\ out[k].cells["source_secondary"] # <<>>
          /\ loc(df, blocks[k].base).cells["phone"] = NaN

\* ------------------------------------------------------------------------
\* C24  Bounded retry of the Overpass call
\* ------------------------------------------------------------------------

\* The endpoints posted to in one attempt, in order.
PostedIn(a) ==
    LET es == SelectSeq(adapter.log, LAMBDA e : e.attempt = a)
    IN  [i \in 1..Len(es) |-> es[i].endpoint]

\* C24: there are at most 4 attempts; in an attempt no endpoint is posted to
\* twice; an answer of HTTP 200 with JSON is the last POST of the call and
\* the call returns that body; the call ends with RetryError only after the
\* 4th attempt, every endpoint having failed in every attempt; and it ends
\* either with a result or with RetryError.
C24_BoundedRetry ==
    /\ adapter.attempt_number <= MaxAttempts
    /\ \A a \in 1..MaxAttempts :
          /\ NoRepeats(PostedIn(a))
          /\ Range(PostedIn(a)) \subseteq Range(OVERPASS_ENDPOINTS)
    /\ \A i \in 1..Len(adapter.log) :
          adapter.log[i].answer = "200_json" =>
              /\ i = Len(adapter.log)
              /\ pc = "done"
              /\ adapter.result = <<"json", adapter.log[i].endpoint>>
              /\ adapter.raised = ""
    /\ adapter.raised = "RetryError" =>
          /\ pc = "done"
          /\ adapter.result = None
          /\ adapter.attempt_number = MaxAttempts
          /\ \A a \in 1..MaxAttempts : Range(PostedIn(a)) = Range(OVERPASS_ENDPOINTS)
          /\ Len(adapter.log) = MaxAttempts * Len(OVERPASS_ENDPOINTS)
    /\ pc = "done" => (adapter.result # None \/ adapter.raised = "RetryError")

\* Every endpoint failed in each of the four attempts and the call ended
\* with RetryError.
C24_Witness ==
    /\ pc = "done"
    /\ adapter.raised = "RetryError"
    /\ Len(adapter.log) = 8
    /\ adapter.attempt_number = 4

\* ------------------------------------------------------------------------
\* C25  The distance test inside a bucket
\* ------------------------------------------------------------------------

Abs(v) == IF v < 0 THEN -v ELSE v

\* C25: the points of two rows of one group differ by at most 10 m on each
\* axis and pass the distance test of line 33; and when a block has been
\* built, a row of the group other than the seed and not used before is a
\* member of it exactly when the name test of line 34 holds.
C25_DistanceTestAlwaysTrueInBucket ==
    /\ \A p, q \in 1..Len(cand) :
          /\ Abs(cand[p].geometry.x - cand[q].geometry.x) <= GridSize
          /\ Abs(cand[p].geometry.y - cand[q].geometry.y) <= GridSize
          /\ within_radius(cand[p].geometry, cand[q].geometry, radius_m)
    /\ pc = "merge" =>
          \A p \in 1..Len(cand) :
              (cand[p].index # cand[ipos].index /\ cand[p].index \notin UsedBefore) =>
                  (cand[p].index \in Range(block) <=> name_match(cand[ipos], cand[p]))

\* Two records at opposite corners of one grid cell, with matching names,
\* end as one merged row.
C25_Witness ==
    /\ pc = "done"
    /\ TwoValid
    /\ inputs[1].longitude = Num(-5) /\ inputs[1].latitude = Num(-5)
    /\ inputs[2].longitude = Num(5) /\ inputs[2].latitude = Num(5)
    /\ Len(buckets) = 1
    /\ Len(out) = 1

\* ------------------------------------------------------------------------
\* C26  A second run on the output
\* ------------------------------------------------------------------------

\* The second call of _geo_dedup has returned.
SecondRunDone == pc = "done" /\ call # NoCall /\ raised = ""

\* C26: when _geo_dedup has run on its own output, the second table has as
\* many records as the first and every block of the second run is a single
\* row.
C26_RerunMergesNothing ==
    SecondRunDone =>
        /\ Len(out) = Len(call.rets[1])
        /\ \A b \in 1..Len(blocks) : Len(blocks[b].members) = 1

\* The second run never returns more records than the first, and it returns
\* as many, in singleton blocks, when the first run built a single block.
C26_RerunNeverGrows ==
    SecondRunDone =>
        /\ Len(out) <= Len(call.rets[1])
        /\ Len(call.rets[1]) = 1 =>
              (Len(out) = 1 /\ \A b \in 1..Len(blocks) : Len(blocks[b].members) = 1)

\* "Sunny Caravan Pk" (osm), "Sunny Caravan Park" (brand) and "Park Sunny":
\* two records after the first run, one after the second.
C26_SecondRunMerges ==
    /\ SecondRunDone
    /\ Len(inputs) = 3
    /\ Len(call.rets[1]) = 2
    /\ Len(out) = 1

\* ------------------------------------------------------------------------
\* C27  The checked flag of the parcel enrichers
\* ------------------------------------------------------------------------

\* The text s begins with the text prefix.
StartsWith(s, prefix) ==
    Len(s) >= Len(prefix) /\ SubSeq(s, 1, Len(prefix)) = prefix

\* The run of a parcel enricher has written its output file.
ParcelsDone == pc = "area_done"

\* The input file has the checked column and row i has the flag 1 in it.
CheckedBefore(i) ==
    row_get(adapter.inp[i], checked_col(adapter.name)) = Integer(1)

\* C27: in the output of either parcel enricher every row a query was
\* attempted for has its checked flag equal to 1, with the error in notes
\* when the query ended in an exception; and without --force a row whose
\* flag was 1 in the input is never queried.
C27_QueriedRowsEndChecked ==
    /\ ParcelsDone =>
          \A i \in adapter.queried :
              /\ adapter.written[i][checked_col(adapter.name)] = <<"1">>
              /\ i \in adapter.failed =>
                    StartsWith(adapter.written[i]["notes"], error_prefix(adapter.name))
    /\ pc \in {"area_rows", "area_query", "area_write", "area_done"} =>
          (~adapter.args.force =>
              \A i \in adapter.queried : ~CheckedBefore(i))

\* A run without --force over two rows of the module's state: the first was
\* checked before and is not queried, the query of the second fails and the
\* row is written with the flag 1 and the error note.
C27_Witness ==
    /\ ParcelsDone
    /\ ~adapter.args.force
    /\ Len(adapter.inp) = 2
    /\ adapter.inp[1]["state"] = Str(state_of(adapter.name))
    /\ CheckedBefore(1)
    /\ adapter.queried = {2}
    /\ adapter.failed = {2}
    /\ adapter.written[2][checked_col(adapter.name)] = <<"1">>
    /\ adapter.written[2]["notes"] # <<>>

\* ------------------------------------------------------------------------
\* C28  The rows the NSW enricher skips
\* ------------------------------------------------------------------------

\* The NSW enricher has ended a run without --force.
NswDoneNoForce ==
    ParcelsDone /\ adapter.name = "area_nsw" /\ ~adapter.args.force

\* The columns set for every row by lines 52-54.
NswResetColumns == {"nsw_parcels_count", "nsw_parcel_ids", "nsw_area_sum_sqm"}

\* C28: after a run of the NSW enricher without --force, a row no query was
\* attempted for has in every column of the input file the value the input
\* file has.
C28_SkippedRowsUnchanged ==
    NswDoneNoForce =>
        \A i \in (1..Len(adapter.inp)) \ adapter.queried :
            \A c \in DOMAIN adapter.inp[i] :
                adapter.written[i][c] = csv_text(adapter.inp[i][c])

\* A skipped row keeps the value of every column other than the three of
\* lines 52-54, and has 0, the empty text and the empty text in these.
C28_SkippedRowsUnchangedButReset ==
    NswDoneNoForce =>
        \A i \in (1..Len(adapter.inp)) \ adapter.queried :
            /\ \A c \in DOMAIN adapter.inp[i] \ NswResetColumns :
                  adapter.written[i][c] = csv_text(adapter.inp[i][c])
            /\ adapter.written[i]["nsw_parcels_count"] = <<"0">>
            /\ adapter.written[i]["nsw_parcel_ids"] = <<>>
            /\ adapter.written[i]["nsw_area_sum_sqm"] = <<>>

\* A row with the flag 1 and 3 parcels counted by an earlier run is skipped
\* and written with the count 0.
C28_CountLost ==
    /\ NswDoneNoForce
    /\ Len(adapter.inp) = 1
    /\ CheckedBefore(1)
    /\ adapter.inp[1]["nsw_parcels_count"] = Integer(3)
    /\ adapter.queried = {}
    /\ adapter.written[1]["nsw_parcels_count"] = <<"0">>

\* ------------------------------------------------------------------------
\* C29  The API budget
\* ------------------------------------------------------------------------

\* C29: the counter api_calls never exceeds api_limit, and no call of the
\* Google client is made when the counter has reached the limit.
C29_BudgetNeverExceeded ==
    /\ adapter.api_calls <= api_limit
    /\ pc \in {"search", "details"} => adapter.api_calls < api_limit

\* A call of find_place that starts at the limit makes no request, and a
\* call that starts below it leaves the counter at most 5 above the limit.
C29_BudgetCheckedAtEntry ==
    /\ adapter.api_before >= api_limit => adapter.requests = 0
    /\ adapter.api_calls <= api_limit + 5

\* A lookup entered one call below the limit has found no candidate in four
\* queries and leaves the counter at api_limit + 3.
C29_BudgetExceeded ==
    /\ pc = "find_place"
    /\ adapter.outcome = "not_found"
    /\ adapter.api_before = api_limit - 1
    /\ adapter.api_calls = api_limit + 3

\* ------------------------------------------------------------------------
\* C30  The cache of find_place
\* ------------------------------------------------------------------------

\* C30: a call of find_place with a key whose lookup has been completed
\* without an exception returns the result of that lookup (the details, or
\* None), makes no call of the Google client and leaves api_calls as it was.
C30_CompletedLookupIsCached ==
    adapter.known # <<>> =>
        /\ pc = "find_place"
        /\ adapter.outcome = "cached"
        /\ adapter.ret = adapter.known[1]
        /\ adapter.requests = 0
        /\ adapter.api_calls = adapter.api_before

\* A third call returns the negative result of a key from the cache after a
\* lookup of another key has found a place.
C30_Witness ==
    /\ pc = "find_place"
    /\ adapter.finds = 3
    /\ adapter.known = <<NoPlace>>
    /\ adapter.outcome = "cached"
    /\ \E e \in adapter.completed : e.value # NoPlace
=============================================================================
